---------------------------- MODULE Spec2Model ----------------------------
(***************************************************************************)
(* GrapeTree tree-inference engine: distance matrix, classical MSTree      *)
(* (Prim with tie-break), MSTreeV2 (minimum incoming edges, cycle          *)
(* contraction, branch recrafting) and the Newick serializer.              *)
(*                                                                         *)
(* Distances are doubles in the source.  Every distance the engine builds  *)
(* from integer profiles is a multiple of 0.5, so the model stores a       *)
(* distance d as the integer 2*d ("half units").  On such values the       *)
(* source's test |a - b| < 1e-10 is exactly a = b.  The harmonic scores    *)
(* are not multiples of anything: they are kept as binary64 values and     *)
(* computed with the rounding of the source's operations.                  *)
(***************************************************************************)
EXTENDS Integers, Sequences, FiniteSets, TLC

\* ---- bounds of the model ------------------------------------------------
\* Requests hold 1..MaxStrains strains.
MaxStrains == 3
\* Every profile row has the loci Loci; an allele call is 0 (missing) or one
\* of two nominal alleles.
Loci == 0..1
AlleleValues == {0, 1, 2}

\* ---- program constants --------------------------------------------------
\* 0.5 * missing_in_from: one unit of distance is two half units.
HalfUnits == 2
\* std::numeric_limits<double>::max(), larger than every sum of real distances.
DBL_MAX == 1000000
\* MissingHandler enumerators.
IGNORE == 0
REMOVE_COLUMN == 1
TREAT_AS_ALLELE == 2
ABSOLUTE_DIFF == 3

VARIABLES pc, strain_names, profiles, matrix_type, missing_handler,
          distances, method, heuristic, tree_edges, newick,
          profile_json, response, frames

vars == <<pc, strain_names, profiles, matrix_type, missing_handler,
          distances, method, heuristic, tree_edges, newick,
          profile_json, response, frames>>

\* ---- ProfileData ---------------------------------------------------------
\* parse_profile_json: n_strains is the number of names, n_genes the length of
\* the first profile row (0 when there is no row).
n_strains == Cardinality(DOMAIN strain_names)
n_genes == IF DOMAIN profiles = {} THEN 0 ELSE Cardinality(DOMAIN profiles[0])

Handlers == {IGNORE, REMOVE_COLUMN, TREAT_AS_ALLELE, ABSOLUTE_DIFF}

\* Strain names are sequences of characters.  Two name vectors: plain names,
\* and names holding characters that are special in Newick.
PlainNames == <<  <<"A">>, <<"B">>, <<"C">>, <<"D">>, <<"E">>  >>
SpecialNames == <<  <<"S", " ", "1">>, <<"S", ":", "2">>, <<"T", "3">>,
                    <<"(", "U", ")">>, <<"V", ",", "5">>  >>
NameVectors(n) == { [i \in 0..(n - 1) |-> PlainNames[i + 1]],
                    [i \in 0..(n - 1) |-> SpecialNames[i + 1]] }

\* ---- distance.cpp --------------------------------------------------------
\* Faulty variant of LocusDifference: TREAT_AS_ALLELE counts every locus with
\* a missing value, also when both alleles are missing.
LocusDifference_CountsBothMissing(allele1, allele2, handler) ==
    LET missing1 == allele1 <= 0
        missing2 == allele2 <= 0
    IN  IF missing1 \/ missing2
        THEN IF handler \in {TREAT_AS_ALLELE, ABSOLUTE_DIFF} THEN 1 ELSE 0
        ELSE IF allele1 # allele2 THEN 1 ELSE 0

\* Faulty variant of LocusDifference: IGNORE lacks its `continue` and counts
\* a locus with a missing value as a difference.
LocusDifference_IgnoreCounts(allele1, allele2, handler) ==
    LET missing1 == allele1 <= 0
        missing2 == allele2 <= 0
    IN  IF missing1 \/ missing2
        THEN CASE handler = IGNORE -> 1
               [] handler = REMOVE_COLUMN -> 0
               [] handler = TREAT_AS_ALLELE ->
                    IF missing1 # missing2 \/ (~missing1 /\ allele1 # allele2)
                    THEN 1 ELSE 0
               [] handler = ABSOLUTE_DIFF -> 1
               [] OTHER -> 0
        ELSE IF allele1 # allele2 THEN 1 ELSE 0

\* One locus of compute_pairwise_distance: its contribution to `differences`.
LocusDifference(allele1, allele2, handler) ==
    LET missing1 == allele1 <= 0
        missing2 == allele2 <= 0
    IN  IF missing1 \/ missing2
        THEN CASE handler = IGNORE -> 0
               [] handler = REMOVE_COLUMN -> 0
               [] handler = TREAT_AS_ALLELE ->
                    IF missing1 # missing2 \/ (~missing1 /\ allele1 # allele2)
                    THEN 1 ELSE 0
               [] handler = ABSOLUTE_DIFF -> 1
               [] OTHER -> 0
        ELSE IF allele1 # allele2 THEN 1 ELSE 0

\* The loop of compute_pairwise_distance from locus k on.
RECURSIVE PairwiseLoop(_, _, _, _, _)
PairwiseLoop(profile1, profile2, handler, k, differences) ==
    IF k >= n_genes THEN differences
    ELSE PairwiseLoop(profile1, profile2, handler, k + 1,
             differences + LocusDifference(profile1[k], profile2[k], handler))

compute_pairwise_distance(profile1, profile2, handler) ==
    HalfUnits * PairwiseLoop(profile1, profile2, handler, 0, 0)

\* The loop of compute_directional_distance: <<differences, missing_in_from>>.
RECURSIVE DirectionalLoop(_, _, _, _, _)
DirectionalLoop(from_profile, to_profile, k, differences, missing_in_from) ==
    IF k >= n_genes THEN <<differences, missing_in_from>>
    ELSE IF from_profile[k] <= 0
         THEN DirectionalLoop(from_profile, to_profile, k + 1,
                              differences, missing_in_from + 1)
         ELSE IF to_profile[k] > 0 /\ from_profile[k] # to_profile[k]
              THEN DirectionalLoop(from_profile, to_profile, k + 1,
                                   differences + 1, missing_in_from)
              ELSE DirectionalLoop(from_profile, to_profile, k + 1,
                                   differences, missing_in_from)

\* Faulty variant of compute_directional_distance: a missing `from` allele
\* weighs a full unit instead of 0.5.
compute_directional_distance_FullWeight(from_profile, to_profile) ==
    LET r == DirectionalLoop(from_profile, to_profile, 0, 0, 0)
    IN  HalfUnits * r[1] + HalfUnits * r[2]

compute_directional_distance(from_profile, to_profile) ==
    LET r == DirectionalLoop(from_profile, to_profile, 0, 0, 0)
    IN  HalfUnits * r[1] + r[2]

\* Faulty variant of compute_symmetric: matrix[j][i] = dist is left out.
compute_symmetric_UpperOnly(handler) ==
    [i \in 0..(n_strains - 1) |->
        [j \in 0..(n_strains - 1) |->
            IF i < j THEN compute_pairwise_distance(profiles[i], profiles[j], handler)
            ELSE 0]]

\* compute_symmetric over the profile rows data_profiles:
\* matrix[i][j] = matrix[j][i] = dist for i < j, zero elsewhere.
SymmetricMatrix(data_profiles, handler) ==
    [i \in 0..(n_strains - 1) |->
        [j \in 0..(n_strains - 1) |->
            IF i < j
            THEN compute_pairwise_distance(data_profiles[i], data_profiles[j], handler)
            ELSE IF j < i
            THEN compute_pairwise_distance(data_profiles[j], data_profiles[i], handler)
            ELSE 0]]

compute_symmetric(handler) == SymmetricMatrix(profiles, handler)

\* compute_asymmetric over the profile rows data_profiles.
AsymmetricMatrix(data_profiles) ==
    [i \in 0..(n_strains - 1) |->
        [j \in 0..(n_strains - 1) |->
            IF i = j THEN 0
            ELSE compute_directional_distance(data_profiles[i], data_profiles[j])]]

compute_asymmetric == AsymmetricMatrix(profiles)

\* ---- mstree.cpp: shared helpers -------------------------------------------
\* Number of nodes of a square matrix (distances.size()).
Size(D) == Cardinality(DOMAIN D)

\* std::abs(a - b) < 1e-10 on half-unit integers.
Close(a, b) == a = b

\* Edge(f, t, d)
Edge(f, t, d) == [from |-> f, to |-> t, distance |-> d]

\* ---- double arithmetic ----------------------------------------------------
\* The harmonic scores are doubles: 1.0 / dist, sum += ..., count / sum are
\* IEEE-754 binary64 operations, rounded to nearest, ties to even.  A double
\* is [sign, exp, man]: sign * man * 2^exp with 2^52 <= man < 2^53, or zero
\* (sign = 0).  A mantissa is <<hi, lo>> = hi * 2^30 + lo.  All values of the
\* scores lie in the normal range.  The operations are functions, so that
\* each of them works on the values of its operands.
MantissaBits == 53
Limb == 2^30
BigNat == Nat \X Nat
Dbl == [sign : {-1, 0, 1}, exp : Int, man : BigNat]

BigAdd(x, y) ==
    IF x[2] + y[2] >= Limb THEN <<x[1] + y[1] + 1, x[2] + y[2] - Limb>>
    ELSE <<x[1] + y[1], x[2] + y[2]>>

\* x - y for x >= y.
BigSub(x, y) ==
    IF x[2] < y[2] THEN <<x[1] - y[1] - 1, x[2] - y[2] + Limb>>
    ELSE <<x[1] - y[1], x[2] - y[2]>>

BigLess(x, y) == x[1] < y[1] \/ (x[1] = y[1] /\ x[2] < y[2])
BigOdd(x) == x[2] % 2 = 1

\* The number of bits of X.
BitLength(X) ==
    IF X[1] > 0 THEN 30 + Cardinality({k \in 0..29 : 2^k <= X[1]})
    ELSE Cardinality({k \in 0..29 : 2^k <= X[2]})

\* X shifted left by k bits, for a result below 2^60.
BigShl[X \in BigNat, k \in Nat] ==
    LET j == k % 30
        base == IF k >= 30 THEN <<X[2], 0>> ELSE X
    IN  <<base[1] * 2^j + base[2] \div 2^(30 - j), (base[2] % 2^(30 - j)) * 2^j>>

\* X shifted right by k bits, as <<result, r, s>>: r is the bit shifted out
\* last, s tells whether a one was shifted out before it or sticky held.
BigShrRound[X \in BigNat, k \in Nat, sticky \in BOOLEAN] ==
    IF k = 0 THEN <<X, FALSE, sticky>>
    ELSE IF k <= 30
         THEN << <<X[1] \div 2^k, X[2] \div 2^k + (X[1] % 2^k) * 2^(30 - k)>>,
                 X[2] % 2^k >= 2^(k - 1),
                 sticky \/ X[2] % 2^(k - 1) # 0 >>
    ELSE IF k <= 60
         THEN << <<0, X[1] \div 2^(k - 30)>>,
                 X[1] % 2^(k - 30) >= 2^(k - 31),
                 sticky \/ X[1] % 2^(k - 31) # 0 \/ X[2] # 0 >>
    ELSE << <<0, 0>>, FALSE, sticky \/ X # <<0, 0>> >>

\* <<X * 8 shifted right by k bits, whether a one was shifted out>>: the
\* smaller operand of a sum or a difference, with three more bits.
Aligned[X \in BigNat, k \in Nat] ==
    LET st == BigShrRound[BigShl[X, 3], k, FALSE]
    IN  <<st[1], st[2] \/ st[3]>>

TwoTo52 == <<2^(MantissaBits - 31), 0>>
TwoTo53 == <<2^(MantissaBits - 30), 0>>

DblZero == [sign |-> 0, exp |-> 0, man |-> <<0, 0>>]

\* st = <<X, r, s>> with X of MantissaBits bits or fewer: X * 2^e rounded up
\* when the bits r, s below it say so.
Rounded[st \in BigNat \X BOOLEAN \X BOOLEAN, e \in Int] ==
    LET up == st[2] /\ (st[3] \/ BigOdd(st[1]))
    IN  IF up /\ BigAdd(st[1], <<0, 1>>) = TwoTo53
        THEN [sign |-> 1, exp |-> e + 1, man |-> TwoTo52]
        ELSE [sign |-> 1, exp |-> e,
              man |-> IF up THEN BigAdd(st[1], <<0, 1>>) ELSE st[1]]

\* X brought to MantissaBits bits.
Normalized[X \in BigNat, shift \in Int, sticky \in BOOLEAN] ==
    IF shift > 0 THEN BigShrRound[X, shift, sticky]
    ELSE <<BigShl[X, 0 - shift], FALSE, sticky>>

\* The double nearest to (X + t) * 2^e, ties to even, for X > 0 and
\* 0 <= t < 1; sticky tells t > 0.
RoundNearestEven[X \in BigNat, e \in Int, sticky \in BOOLEAN] ==
    Rounded[Normalized[X, BitLength(X) - MantissaBits, sticky],
            e + BitLength(X) - MantissaBits]

\* static_cast<double>(n), n >= 0.
DblFromInt(n) == IF n = 0 THEN DblZero ELSE RoundNearestEven[<<0, n>>, 0, FALSE]

\* The double of a distance held in half units.
DblFromHalfUnits(h) ==
    IF h = 0 THEN DblZero ELSE RoundNearestEven[<<0, h>>, 0 - 1, FALSE]

DblNeg(a) == [a EXCEPT !.sign = 0 - a.sign]

\* Restoring division on st = <<quotient, remainder>>: one quotient bit, and
\* k of them.  A run of k steps is two runs of half the length.
DivStep(st, den) ==
    IF BigLess(BigAdd(st[2], st[2]), den)
    THEN <<BigAdd(st[1], st[1]), BigAdd(st[2], st[2])>>
    ELSE <<BigAdd(BigAdd(st[1], st[1]), <<0, 1>>),
           BigSub(BigAdd(st[2], st[2]), den)>>

DivLoop[st \in BigNat \X BigNat, den \in BigNat, k \in Nat] ==
    IF k = 0 THEN st
    ELSE IF k = 1 THEN DivStep(st, den)
    ELSE DivLoop[DivLoop[st, den, k \div 2], den, k - k \div 2]

\* The quotient and what is left of it, rounded.
RoundQuotient[qr \in BigNat \X BigNat, e \in Int] ==
    RoundNearestEven[qr[1], e, qr[2] # <<0, 0>>]

\* a / b for a, b > 0.
DblDiv[a \in Dbl, b \in Dbl] ==
    RoundQuotient[DivLoop[IF BigLess(a.man, b.man) THEN <<<<0, 0>>, a.man>>
                          ELSE <<<<0, 1>>, BigSub(a.man, b.man)>>,
                          b.man, MantissaBits + 2],
                  a.exp - b.exp - (MantissaBits + 2)]

\* (X * 8 + ys) * 2^(e - 3) as a double; ys = Aligned[...] of the smaller
\* operand.
RoundSum[X \in BigNat, ys \in BigNat \X BOOLEAN, e \in Int] ==
    RoundNearestEven[BigAdd(BigShl[X, 3], ys[1]), e - 3, ys[2]]

\* (X * 8 - ys) * 2^(e - 3) as a double.
RoundDifference[X \in BigNat, ys \in BigNat \X BOOLEAN, e \in Int] ==
    RoundNearestEven[BigSub(BigShl[X, 3],
                            IF ys[2] THEN BigAdd(ys[1], <<0, 1>>) ELSE ys[1]),
                     e - 3, ys[2]]

\* a + b for a, b >= 0.
DblAdd[a \in Dbl, b \in Dbl] ==
    IF a.sign = 0 THEN b
    ELSE IF b.sign = 0 THEN a
    ELSE IF a.exp >= b.exp
         THEN RoundSum[a.man, Aligned[b.man, a.exp - b.exp], a.exp]
         ELSE RoundSum[b.man, Aligned[a.man, b.exp - a.exp], b.exp]

\* a > b
DblGreater[a \in Dbl, b \in Dbl] ==
    IF a.sign # b.sign THEN a.sign > b.sign
    ELSE IF a.sign = 0 THEN FALSE
    ELSE IF a.sign = 1
         THEN a.exp > b.exp \/ (a.exp = b.exp /\ BigLess(b.man, a.man))
         ELSE b.exp > a.exp \/ (a.exp = b.exp /\ BigLess(a.man, b.man))

\* std::abs(a - b)
DblAbsDiff[a \in Dbl, b \in Dbl] ==
    IF a = b THEN DblZero
    ELSE IF a.sign = 0 THEN [b EXCEPT !.sign = 1]
    ELSE IF b.sign = 0 THEN [a EXCEPT !.sign = 1]
    ELSE IF a.sign # b.sign
         THEN DblAdd[[a EXCEPT !.sign = 1], [b EXCEPT !.sign = 1]]
    ELSE IF a.exp > b.exp \/ (a.exp = b.exp /\ BigLess(b.man, a.man))
         THEN RoundDifference[a.man, Aligned[b.man, a.exp - b.exp], a.exp]
         ELSE RoundDifference[b.man, Aligned[a.man, b.exp - a.exp], b.exp]

\* The literal 1e-10: 0x1.b7cdfd9d7bdbbp-34.
Tolerance == [sign |-> 1, exp |-> 0 - 86, man |-> <<7205759, 433569211>>]

\* best_score = -1.0
MinusOne == DblNeg(DblFromInt(1))

\* Faulty variant of the comparison: no score ever beats the best one.
ScoreGreater_Never(a, b) == FALSE

\* score > best_score
ScoreGreater(a, b) == DblGreater[a, b]
\* std::abs(score - best_score) < 1e-10
ScoreClose(a, b) == DblGreater[Tolerance, DblAbsDiff[a, b]]

\* ---- harmonic mean score --------------------------------------------------
\* The distances the loop of compute_harmonic_mean_score / harmonic_mean_score
\* adds up, in the order of the loop: D[node][i] for i # node with dist > 0.
RECURSIVE PositiveRow(_, _, _)
PositiveRow(D, node, i) ==
    IF i >= Size(D) THEN << >>
    ELSE IF i # node /\ D[node][i] > 0
         THEN <<D[node][i]>> \o PositiveRow(D, node, i + 1)
         ELSE PositiveRow(D, node, i + 1)

\* sum_reciprocals += 1.0 / dist over the row from position k on.
HarmonicLoop[row \in Seq(Nat), k \in Nat, sum_reciprocals \in Dbl] ==
    IF k > Len(row) THEN sum_reciprocals
    ELSE HarmonicLoop[row, k + 1,
                      DblAdd[sum_reciprocals,
                             DblDiv[DblFromInt(1), DblFromHalfUnits(row[k])]]]

\* count > 0 ? count / sum_reciprocals : 0.0
HarmonicScoreOfRow(row) ==
    IF Len(row) = 0 THEN DblZero
    ELSE DblDiv[DblFromInt(Len(row)), HarmonicLoop[row, 1, DblZero]]

\* The scores of the rows a request can hold are computed once: a distance is
\* at most n_genes, that is MaxHalfUnits half units, and a row has at most
\* MaxStrains - 1 distances.  A row is numbered by its distances read as the
\* digits of a number to the base MaxHalfUnits + 1.
MaxHalfUnits == HalfUnits * Cardinality(Loci)

RECURSIVE RowCode(_, _)
RowCode(row, k) ==
    IF k > Len(row) THEN 0
    ELSE row[k] + (MaxHalfUnits + 1) * RowCode(row, k + 1)

RECURSIVE RowOfCode(_)
RowOfCode(code) ==
    IF code = 0 THEN << >>
    ELSE <<code % (MaxHalfUnits + 1)>> \o RowOfCode(code \div (MaxHalfUnits + 1))

ScoreOfCode(code) ==
    LET row == RowOfCode(code)
    IN  IF \A k \in 1..Len(row) : row[k] > 0
        THEN HarmonicScoreOfRow(row) ELSE DblZero

\* The scores of the codes first..last, in order.
RECURSIVE ScoreTableRange(_, _)
ScoreTableRange(first, last) ==
    IF first > last THEN << >>
    ELSE IF first = last THEN <<ScoreOfCode(first)>>
    ELSE LET mid == (first + last) \div 2
         IN  ScoreTableRange(first, mid) \o ScoreTableRange(mid + 1, last)

ScoreTable == ScoreTableRange(0, (MaxHalfUnits + 1)^(MaxStrains - 1) - 1)

compute_harmonic_mean_score(D, node) ==
    LET row == PositiveRow(D, node, 0)
    IN  IF Len(row) < MaxStrains /\ \A k \in 1..Len(row) : row[k] <= MaxHalfUnits
        THEN ScoreTable[RowCode(row, 1) + 1]
        ELSE HarmonicScoreOfRow(row)

\* ---- mstree.cpp: MSTree --------------------------------------------------
EBURST == "eBurst"
HARMONIC == "harmonic"
Heuristics == {EBURST, HARMONIC}

\* Faulty variant of Candidates: the test !in_tree[i] is left out.
RECURSIVE Candidates_IgnoresInTree(_, _, _, _, _)
Candidates_IgnoresInTree(n, dists, in_tree, min_dist, i) ==
    IF i >= n THEN << >>
    ELSE IF Close(dists[i], min_dist)
         THEN <<i>> \o Candidates_IgnoresInTree(n, dists, in_tree, min_dist, i + 1)
         ELSE Candidates_IgnoresInTree(n, dists, in_tree, min_dist, i + 1)

\* The candidates vector of select_node_with_tiebreak, in increasing index.
RECURSIVE Candidates(_, _, _, _, _)
Candidates(n, dists, in_tree, min_dist, i) ==
    IF i >= n THEN << >>
    ELSE IF ~in_tree[i] /\ Close(dists[i], min_dist)
         THEN <<i>> \o Candidates(n, dists, in_tree, min_dist, i + 1)
         ELSE Candidates(n, dists, in_tree, min_dist, i + 1)

\* connections of one candidate: in-tree nodes at distance min_dist.
Connections(D, in_tree, min_dist, node) ==
    Cardinality({j \in DOMAIN D : in_tree[j] /\ Close(D[node][j], min_dist)})

RECURSIVE EburstLoop(_, _, _, _, _, _, _)
EburstLoop(D, candidates, in_tree, min_dist, k, best_node, max_connections) ==
    IF k > Len(candidates) THEN best_node
    ELSE LET node == candidates[k]
             connections == Connections(D, in_tree, min_dist, node)
         IN  IF connections > max_connections
             THEN EburstLoop(D, candidates, in_tree, min_dist, k + 1,
                             node, connections)
             ELSE IF connections = max_connections /\ node < best_node
                  THEN EburstLoop(D, candidates, in_tree, min_dist, k + 1,
                                  node, max_connections)
                  ELSE EburstLoop(D, candidates, in_tree, min_dist, k + 1,
                                  best_node, max_connections)

\* Faulty variant of the eBurst tie-break: the first candidate is returned.
apply_eburst_tiebreak_First(D, candidates, in_tree, min_dist) == candidates[1]

apply_eburst_tiebreak(D, candidates, in_tree, min_dist) ==
    EburstLoop(D, candidates, in_tree, min_dist, 1, candidates[1], 0)

RECURSIVE HarmonicTieLoop(_, _, _, _, _)
HarmonicTieLoop(D, candidates, k, best_node, best_score) ==
    IF k > Len(candidates) THEN best_node
    ELSE LET node == candidates[k]
             score == compute_harmonic_mean_score(D, node)
         IN  IF ScoreGreater(score, best_score)
             THEN HarmonicTieLoop(D, candidates, k + 1, node, score)
             ELSE IF ScoreClose(score, best_score) /\ node < best_node
                  THEN HarmonicTieLoop(D, candidates, k + 1, node, best_score)
                  ELSE HarmonicTieLoop(D, candidates, k + 1, best_node, best_score)

apply_harmonic_tiebreak(D, candidates) ==
    HarmonicTieLoop(D, candidates, 1, candidates[1], MinusOne)

select_node_with_tiebreak(D, heur, dists, in_tree, min_dist) ==
    LET candidates == Candidates(Size(D), dists, in_tree, min_dist, 0)
    IN  IF Len(candidates) = 1 THEN candidates[1]
        ELSE IF heur = EBURST
             THEN apply_eburst_tiebreak(D, candidates, in_tree, min_dist)
             ELSE apply_harmonic_tiebreak(D, candidates)

\* min_dist of one iteration: the least min_distance of a node not in the tree.
RECURSIVE MinDistLoop(_, _, _, _, _)
MinDistLoop(n, min_distance, in_tree, i, min_dist) ==
    IF i >= n THEN min_dist
    ELSE IF ~in_tree[i] /\ min_distance[i] < min_dist
         THEN MinDistLoop(n, min_distance, in_tree, i + 1, min_distance[i])
         ELSE MinDistLoop(n, min_distance, in_tree, i + 1, min_dist)

\* Faulty variant of Relax: the comparison is inverted, so a node outside the
\* tree keeps the farther of its two attachment points.
Relax_KeepsFarther(D, in_tree, min_node, min_distance, parent) ==
    LET worse(i) == ~in_tree[i] /\ D[min_node][i] > min_distance[i]
    IN  <<[i \in DOMAIN D |-> IF worse(i) THEN D[min_node][i] ELSE min_distance[i]],
          [i \in DOMAIN D |-> IF worse(i) THEN min_node ELSE parent[i]]>>

\* Faulty variant of Relax: min_distance is lowered but parent is left as it
\* was.
Relax_KeepsParent(D, in_tree, min_node, min_distance, parent) ==
    LET better(i) == ~in_tree[i] /\ D[min_node][i] < min_distance[i]
    IN  <<[i \in DOMAIN D |-> IF better(i) THEN D[min_node][i] ELSE min_distance[i]],
          parent>>

\* The relaxation after min_node joined the tree.
Relax(D, in_tree, min_node, min_distance, parent) ==
    LET better(i) == ~in_tree[i] /\ D[min_node][i] < min_distance[i]
    IN  <<[i \in DOMAIN D |-> IF better(i) THEN D[min_node][i] ELSE min_distance[i]],
          [i \in DOMAIN D |-> IF better(i) THEN min_node ELSE parent[i]]>>

\* The main loop of MSTree::compute from iteration `count` on.
RECURSIVE PrimLoop(_, _, _, _, _, _, _)
PrimLoop(D, heur, count, in_tree, min_distance, parent, edges) ==
    IF count >= Size(D) THEN edges
    ELSE LET min_dist == MinDistLoop(Size(D), min_distance, in_tree, 0, DBL_MAX)
             min_node == select_node_with_tiebreak(D, heur, min_distance,
                                                   in_tree, min_dist)
             in_tree2 == [in_tree EXCEPT ![min_node] = TRUE]
             r == Relax(D, in_tree2, min_node, min_distance, parent)
         IN  PrimLoop(D, heur, count + 1, in_tree2, r[1], r[2],
                      Append(edges, Edge(parent[min_node], min_node, min_dist)))

MSTreeCompute(D, heur) ==
    LET start_node == 0
        in_tree == [i \in DOMAIN D |-> i = start_node]
        min_distance == [i \in DOMAIN D |->
                            IF i = start_node THEN 0 ELSE D[start_node][i]]
        parent == [i \in DOMAIN D |-> IF i = start_node THEN -1 ELSE start_node]
    IN  PrimLoop(D, heur, 1, in_tree, min_distance, parent, << >>)

\* ---- mstree.cpp: MSTreeV2 ------------------------------------------------
\* recraft_branches: max_iterations.
max_iterations == 10

\* The scan over `from` for one `to` in find_minimum_incoming_edges:
\* <<min_dist, best_from, best_score>>.
RECURSIVE IncomingLoop(_, _, _, _, _, _)
IncomingLoop(D, to, from, min_dist, best_from, best_score) ==
    IF from >= Size(D) THEN <<min_dist, best_from, best_score>>
    ELSE IF from = to
         THEN IncomingLoop(D, to, from + 1, min_dist, best_from, best_score)
         ELSE LET dist == D[from][to]
                  score == compute_harmonic_mean_score(D, from)
              IN  IF dist < min_dist
                  THEN IncomingLoop(D, to, from + 1, dist, from, score)
                  ELSE IF Close(dist, min_dist) /\ ScoreGreater(score, best_score)
                       THEN IncomingLoop(D, to, from + 1, min_dist, from, score)
                       ELSE IncomingLoop(D, to, from + 1, min_dist,
                                         best_from, best_score)

RECURSIVE FindIncomingFrom(_, _)
FindIncomingFrom(D, to) ==
    IF to >= Size(D) THEN << >>
    ELSE LET r == IncomingLoop(D, to, 0, DBL_MAX, -1, MinusOne)
         IN  (IF r[2] # -1 THEN <<Edge(r[2], to, r[1])>> ELSE << >>)
             \o FindIncomingFrom(D, to + 1)

\* Faulty variant of find_minimum_incoming_edges: the loop over `to` starts
\* at 0, so the root is given an incoming edge too.
find_minimum_incoming_edges_RootIncluded(D) == FindIncomingFrom(D, 0)

find_minimum_incoming_edges(D) == FindIncomingFrom(D, 1)

\* find_root with path compression: <<parent after compression, root>>.
RECURSIVE find_root(_, _)
find_root(parent, node) ==
    IF parent[node] # node
    THEN LET r == find_root(parent, parent[node])
         IN  <<[r[1] EXCEPT ![node] = r[2]], r[2]>>
    ELSE <<parent, node>>

\* The first edge of `edges` pointing to `current`, or 0 when there is none.
FirstEdgeTo(edges, current) ==
    IF \E k \in 1..Len(edges) : edges[k].to = current
    THEN CHOOSE k \in 1..Len(edges) :
            /\ edges[k].to = current
            /\ \A m \in 1..(k - 1) : edges[m].to # current
    ELSE 0

RECURSIVE MarkLoop(_, _, _, _, _)
MarkLoop(edges, current, visited, cycle_id, id) ==
    IF current \in visited THEN cycle_id
    ELSE LET marked == [cycle_id EXCEPT ![current] = id]
             k == FirstEdgeTo(edges, current)
         IN  IF k = 0 THEN marked
             ELSE MarkLoop(edges, edges[k].from, visited \cup {current}, marked, id)

\* Faulty variant of mark_cycle: only the node the cycle closed at is marked.
mark_cycle_StartOnly(edges, start, cycle_id, id) == [cycle_id EXCEPT ![start] = id]

mark_cycle(edges, start, cycle_id, id) == MarkLoop(edges, start, {}, cycle_id, id)

RECURSIVE DetectLoop(_, _, _, _, _)
DetectLoop(edges, k, parent, cycle_id, next_cycle_id) ==
    IF k > Len(edges) THEN cycle_id
    ELSE LET e == edges[k]
             rf == find_root(parent, e.from)
             rt == find_root(rf[1], e.to)
             root_from == rf[2]
             root_to == rt[2]
             closes == root_from = root_to /\ cycle_id[e.to] = -1
         IN  DetectLoop(edges, k + 1,
                        [rt[1] EXCEPT ![root_to] = root_from],
                        IF closes THEN mark_cycle(edges, e.to, cycle_id, next_cycle_id)
                                  ELSE cycle_id,
                        IF closes THEN next_cycle_id + 1 ELSE next_cycle_id)

detect_cycles(D, edges) ==
    DetectLoop(edges, 1, [i \in DOMAIN D |-> i], [i \in DOMAIN D |-> -1], 0)

has_cycles(cycle_id) == \E i \in DOMAIN cycle_id : cycle_id[i] # -1

\* node_mapping of contract_and_solve: nodes outside cycles keep their order
\* and come first, then one contracted node per cycle id.
node_mapping(cycle_id) ==
    LET free == {i \in DOMAIN cycle_id : cycle_id[i] = -1}
    IN  [i \in DOMAIN cycle_id |->
            IF cycle_id[i] = -1
            THEN Cardinality({x \in free : x < i})
            ELSE Cardinality(free) + cycle_id[i]]

\* new_size of contract_and_solve.
ContractedSize(cycle_id) ==
    Cardinality({i \in DOMAIN cycle_id : cycle_id[i] = -1})
      + Cardinality({cycle_id[i] : i \in DOMAIN cycle_id} \ {-1})

\* cycle_edge_weight: the distance of the first picked edge into j.
CycleEdgeWeight(edges, j) ==
    LET k == FirstEdgeTo(edges, j) IN IF k = 0 THEN 0 ELSE edges[k].distance

\* The double loop that fills new_distances and edge_mapping, from the pair
\* number p = i * n + j on: <<new_distances, edge_mapping>>.
RECURSIVE ContractLoop(_, _, _, _, _, _, _)
ContractLoop(D, edges, cycle_id, M, p, new_distances, edge_mapping) ==
    LET n == Size(D)
        i == p \div n
        j == p % n
    IN  IF p >= n * n THEN <<new_distances, edge_mapping>>
        ELSE IF i = j \/ M[i] = M[j]
             THEN ContractLoop(D, edges, cycle_id, M, p + 1,
                               new_distances, edge_mapping)
             ELSE LET dist == D[i][j]
                      reduced_dist == IF cycle_id[j] # -1
                                      THEN dist - CycleEdgeWeight(edges, j)
                                      ELSE dist
                  IN  IF reduced_dist < new_distances[M[i]][M[j]]
                      THEN ContractLoop(D, edges, cycle_id, M, p + 1,
                             [new_distances EXCEPT ![M[i]][M[j]] = reduced_dist],
                             [edge_mapping EXCEPT ![<<M[i], M[j]>>] = Edge(i, j, dist)])
                      ELSE ContractLoop(D, edges, cycle_id, M, p + 1,
                                        new_distances, edge_mapping)

\* edge_mapping holds NoEdge for a pair it has no entry for.
NoEdge == [from |-> -1, to |-> -1, distance |-> 0]

\* Faulty variant of ExpandContracted: the edges of the contracted solution
\* are not mapped back, so no edge enters a cycle.
ExpandContracted_DropsAll(contracted_edges, edge_mapping, k) == << >>

\* Expansion step 1: the original edges of the contracted solution.
RECURSIVE ExpandContracted(_, _, _)
ExpandContracted(contracted_edges, edge_mapping, k) ==
    IF k > Len(contracted_edges) THEN << >>
    ELSE LET e == contracted_edges[k]
             key == <<e.from, e.to>>
         IN  (IF key \in DOMAIN edge_mapping /\ edge_mapping[key] # NoEdge
              THEN <<edge_mapping[key]>> ELSE << >>)
             \o ExpandContracted(contracted_edges, edge_mapping, k + 1)

\* Faulty variant of ExpandRemaining: the test against the covered nodes is
\* left out, so every picked edge is appended.
RECURSIVE ExpandRemaining_AddsAll(_, _, _, _)
ExpandRemaining_AddsAll(edges, k, final_edges, covered) ==
    IF k > Len(edges) THEN final_edges
    ELSE ExpandRemaining_AddsAll(edges, k + 1, Append(final_edges, edges[k]),
                                 covered \cup {edges[k].to})

\* Expansion step 2: the picked edge of every node not yet covered.
RECURSIVE ExpandRemaining(_, _, _, _)
ExpandRemaining(edges, k, final_edges, covered) ==
    IF k > Len(edges) THEN final_edges
    ELSE IF edges[k].to \notin covered
         THEN ExpandRemaining(edges, k + 1, Append(final_edges, edges[k]),
                              covered \cup {edges[k].to})
         ELSE ExpandRemaining(edges, k + 1, final_edges, covered)

Expand(contracted_edges, edge_mapping, edges) ==
    LET step1 == ExpandContracted(contracted_edges, edge_mapping, 1)
    IN  ExpandRemaining(edges, 1, step1, {step1[k].to : k \in 1..Len(step1)})

can_swap_edges(tree, idx1, idx2) ==
    LET e1 == tree[idx1]
        e2 == tree[idx2]
    IN  e1.from = e2.from \/ e1.from = e2.to \/ e1.to = e2.from \/ e1.to = e2.to

calculate_swap_cost(D, tree, idx1, idx2) ==
    LET e1 == tree[idx1]
        e2 == tree[idx2]
        cost1 == D[e1.from][e2.to] + D[e2.from][e1.to]
        cost2 == D[e1.to][e2.from] + D[e2.to][e1.from]
    IN  IF cost2 < cost1 THEN cost2 ELSE cost1

\* Faulty variant of perform_edge_swap: the reverse-direction reconnection
\* e1.to -> e2.from, e2.to -> e1.from is applied.
perform_edge_swap_Reversed(D, tree, idx1, idx2) ==
    LET e1 == tree[idx1]
        e2 == tree[idx2]
    IN  [tree EXCEPT ![idx1] = Edge(e1.to, e2.from, D[e1.to][e2.from]),
                     ![idx2] = Edge(e2.to, e1.from, D[e2.to][e1.from])]

perform_edge_swap(D, tree, idx1, idx2) ==
    LET e1 == tree[idx1]
        e2 == tree[idx2]
    IN  [tree EXCEPT ![idx1] = Edge(e1.from, e2.to, D[e1.from][e2.to]),
                     ![idx2] = Edge(e2.from, e1.to, D[e2.from][e1.to])]

\* Whether recraft_branches swaps the pair (i, j) of `tree`.
SwapsPair(D, tree, i, j) ==
    /\ can_swap_edges(tree, i, j)
    /\ calculate_swap_cost(D, tree, i, j) < tree[i].distance + tree[j].distance

\* One pass of recraft_branches over the pairs i < j, from the pair (i, j)
\* on: <<tree, improved>>.
RECURSIVE RecraftPass(_, _, _, _, _)
RecraftPass(D, tree, i, j, improved) ==
    IF i > Len(tree) THEN <<tree, improved>>
    ELSE IF j > Len(tree) THEN RecraftPass(D, tree, i + 1, i + 2, improved)
    ELSE IF SwapsPair(D, tree, i, j)
         THEN RecraftPass(D, perform_edge_swap(D, tree, i, j), i, j + 1, TRUE)
         ELSE RecraftPass(D, tree, i, j + 1, improved)

RECURSIVE RecraftLoop(_, _, _, _)
RecraftLoop(D, tree, improved, iteration) ==
    IF improved /\ iteration < max_iterations
    THEN LET r == RecraftPass(D, tree, 1, 2, FALSE)
         IN  RecraftLoop(D, r[1], r[2], iteration + 1)
    ELSE tree

recraft_branches(D, tree) == RecraftLoop(D, tree, TRUE, 0)

RECURSIVE MSTreeV2Compute(_)

contract_and_solve(D, edges, cycle_id) ==
    LET M == node_mapping(cycle_id)
        new_size == ContractedSize(cycle_id)
        nodes == 0..(new_size - 1)
        r == ContractLoop(D, edges, cycle_id, M, 0,
                          [a \in nodes |-> [b \in nodes |-> DBL_MAX]],
                          [key \in nodes \X nodes |-> NoEdge])
        contracted_edges == MSTreeV2Compute(r[1])
    IN  Expand(contracted_edges, r[2], edges)

\* The edge list before recrafting (phases 1 to 3 of compute).
Arborescence(D) ==
    LET min_incoming == find_minimum_incoming_edges(D)
        cycle_id == detect_cycles(D, min_incoming)
    IN  IF has_cycles(cycle_id)
        THEN contract_and_solve(D, min_incoming, cycle_id)
        ELSE min_incoming

MSTreeV2Compute(D) == recraft_branches(D, Arborescence(D))

\* ---- newick.cpp: NewickFormatter ----------------------------------------
\* A string is a sequence of one-character strings.
SpecialChars == {" ", ":", ";", "(", ")", ",", "[", "]", "'"}

sanitize_name(name) ==
    IF \E k \in 1..Len(name) : name[k] \in SpecialChars
    THEN <<"'">> \o name \o <<"'">>
    ELSE name

DigitChars == <<"0", "1", "2", "3", "4", "5", "6", "7", "8", "9">>

\* The decimal digits of a natural number.
RECURSIVE Decimal(_)
Decimal(v) ==
    IF v < 10 THEN <<DigitChars[v + 1]>>
    ELSE Decimal(v \div 10) \o <<DigitChars[(v % 10) + 1]>>

\* operator<< of a double under std::fixed and std::setprecision(6), for a
\* distance kept in half units.
FormatFixed6(d) ==
    Decimal(d \div HalfUnits) \o <<".">>
      \o (IF d % HalfUnits = 0 THEN <<"0", "0", "0", "0", "0", "0">>
                                ELSE <<"5", "0", "0", "0", "0", "0">>)

\* build_tree_structure from edge k on: nodes[i] = [children, parent, branch_length].
RECURSIVE BuildLoop(_, _, _)
BuildLoop(edges, k, nodes) ==
    IF k > Len(edges) THEN nodes
    ELSE LET e == edges[k]
             n1 == [nodes EXCEPT ![e.from].children = Append(@, e.to)]
             n2 == [n1 EXCEPT ![e.to].parent = e.from,
                              ![e.to].branch_length = e.distance]
         IN  BuildLoop(edges, k + 1, n2)

\* Faulty variant of build_tree_structure: every edge is read backwards, its
\* `to` as the parent and its `from` as the child.
build_tree_structure_Backwards(edges, n_nodes) ==
    BuildLoop([k \in 1..Len(edges) |->
                  Edge(edges[k].to, edges[k].from, edges[k].distance)], 1,
              [i \in 0..(n_nodes - 1) |->
                  [children |-> << >>, parent |-> -1, branch_length |-> 0]])

build_tree_structure(edges, n_nodes) ==
    BuildLoop(edges, 1,
              [i \in 0..(n_nodes - 1) |->
                  [children |-> << >>, parent |-> -1, branch_length |-> 0]])

\* TRUE when find_root leaves its first loop without a parentless node.
RootFallback(nodes) == \A i \in DOMAIN nodes : nodes[i].parent # -1

newick_find_root(nodes) ==
    IF ~RootFallback(nodes)
    THEN CHOOSE i \in DOMAIN nodes :
            /\ nodes[i].parent = -1
            /\ \A x \in DOMAIN nodes : x < i => nodes[x].parent # -1
    ELSE IF \A i \in DOMAIN nodes : Len(nodes[i].children) = 0
         THEN 0
         ELSE CHOOSE i \in DOMAIN nodes :
                /\ \A x \in DOMAIN nodes :
                      Len(nodes[x].children) <= Len(nodes[i].children)
                /\ \A x \in DOMAIN nodes :
                      x < i => Len(nodes[x].children) < Len(nodes[i].children)

RECURSIVE to_newick(_, _, _)
RECURSIVE ChildrenNewick(_, _, _, _)

\* The loop over the children of node_id, from child number i on.
ChildrenNewick(node_id, nodes, names, i) ==
    IF i > Len(nodes[node_id].children) THEN << >>
    ELSE LET child_id == nodes[node_id].children[i]
         IN  (IF i > 1 THEN <<",">> ELSE << >>)
             \o to_newick(child_id, nodes, names)
             \o <<":">> \o FormatFixed6(nodes[child_id].branch_length)
             \o ChildrenNewick(node_id, nodes, names, i + 1)

to_newick(node_id, nodes, names) ==
    IF Len(nodes[node_id].children) = 0
    THEN sanitize_name(names[node_id])
    ELSE <<"(">> \o ChildrenNewick(node_id, nodes, names, 1) \o <<")">>
         \o (IF node_id < Cardinality(DOMAIN names)
             THEN sanitize_name(names[node_id]) ELSE << >>)

\* Faulty variant of NewickFormat: an empty edge list always gives "();".
NewickFormat_NoEdgesNoName(edges, names) ==
    IF Len(edges) = 0
    THEN <<"(", ")", ";">>
    ELSE LET nodes == build_tree_structure(edges, Cardinality(DOMAIN names))
         IN  to_newick(newick_find_root(nodes), nodes, names) \o <<";">>

NewickFormat(edges, names) ==
    IF Len(edges) = 0
    THEN IF DOMAIN names = {} THEN <<"(", ")", ";">> ELSE names[0] \o <<";">>
    ELSE LET nodes == build_tree_structure(edges, Cardinality(DOMAIN names))
         IN  to_newick(newick_find_root(nodes), nodes, names) \o <<";">>

\* ---- the request pipeline (wasm_interface.cpp: compute_tree) ------------

Profiles(n) == [0..(n - 1) -> [Loci -> AlleleValues]]

NoMatrix == << >>
NoResponse == << >>

\* The state after parse_profile_json.
Init ==
    /\ pc = "parsed"
    /\ \E n \in 1..MaxStrains :
          /\ strain_names \in NameVectors(n)
          /\ profiles \in Profiles(n)
    /\ matrix_type = "none"
    /\ missing_handler = IGNORE
    /\ distances = NoMatrix
    /\ method = "none"
    /\ heuristic = "none"
    /\ tree_edges = << >>
    /\ newick = << >>
    /\ profile_json = "well_formed"
    /\ response = NoResponse
    /\ frames = << >>

\* dm.compute_symmetric(missing_handler)
ComputeSymmetric ==
    /\ pc = "parsed"
    /\ \E h \in Handlers :
          /\ missing_handler' = h
          /\ distances' = compute_symmetric(h)
    /\ matrix_type' = "symmetric"
    /\ pc' = "matrix"
    /\ UNCHANGED <<strain_names, profiles, method, heuristic, tree_edges, newick>>
    /\ UNCHANGED <<profile_json, response, frames>>

\* dm.compute_asymmetric()
ComputeAsymmetric ==
    /\ pc = "parsed"
    /\ distances' = compute_asymmetric
    /\ matrix_type' = "asymmetric"
    /\ pc' = "matrix"
    /\ UNCHANGED <<strain_names, profiles, missing_handler, method, heuristic,
                   tree_edges, newick>>
    /\ UNCHANGED <<profile_json, response, frames>>

\* MSTree mst(distances, h); tree_edges = mst.compute()
RunMSTree ==
    /\ pc = "matrix"
    /\ \E h \in Heuristics :
          /\ heuristic' = h
          /\ tree_edges' = MSTreeCompute(distances, h)
    /\ method' = "MSTree"
    /\ pc' = "tree"
    /\ UNCHANGED <<strain_names, profiles, matrix_type, missing_handler,
                   distances, newick>>
    /\ UNCHANGED <<profile_json, response, frames>>

\* MSTreeV2 mst2(distances); tree_edges = mst2.compute()
RunMSTreeV2 ==
    /\ pc = "matrix"
    /\ tree_edges' = MSTreeV2Compute(distances)
    /\ method' = "MSTreeV2"
    /\ pc' = "tree"
    /\ UNCHANGED <<strain_names, profiles, matrix_type, missing_handler,
                   distances, heuristic, newick>>
    /\ UNCHANGED <<profile_json, response, frames>>

\* formatter.format(tree_edges, profile_data.strain_names)
FormatNewick ==
    /\ pc = "tree"
    /\ newick' = NewickFormat(tree_edges, strain_names)
    /\ pc' = "done"
    /\ UNCHANGED <<strain_names, profiles, matrix_type, missing_handler,
                   distances, method, heuristic, tree_edges>>
    /\ UNCHANGED <<profile_json, response, frames>>

Next ==
    \/ ComputeSymmetric
    \/ ComputeAsymmetric
    \/ RunMSTree
    \/ RunMSTreeV2
    \/ FormatNewick

Spec == Init /\ [][Next]_vars

\* ---- MSTreeV2::compute step by step ----------------------------------------
\* frames is the stack of running MSTreeV2::compute calls, the innermost
\* last; a frame holds the object's matrix and the locals of compute,
\* contract_and_solve and recraft_branches.  phase is the position in the
\* call: "find", "detect", "contract", "solving" (waiting for the recursive
\* call), "while" (the head of recraft_branches' loop), "pairs" (before the
\* pair (i, j) of its double loop, counted from 1) and "return".
MaxStepStrains == 3

NoCycles == << >>
NoMapping == << >>

V2Frame(D) ==
    [D |-> D, phase |-> "find", min_incoming |-> << >>, cycle_id |-> NoCycles,
     edge_mapping |-> NoMapping, tree |-> << >>,
     improved |-> TRUE, iteration |-> 0, i |-> 0, j |-> 0]

Top == frames[Len(frames)]
SetTop(f) == [frames EXCEPT ![Len(frames)] = f]
InV2 == pc = "v2" /\ frames # << >>

\* The state in which a matrix computation starts: a request that parsed.
StepInit ==
    /\ pc = "parsed"
    /\ \E n \in 1..MaxStepStrains :
          /\ strain_names = [i \in 0..(n - 1) |-> PlainNames[i + 1]]
          /\ profiles \in Profiles(n)
    /\ matrix_type = "none"
    /\ missing_handler = IGNORE
    /\ distances = NoMatrix
    /\ method = "none"
    /\ heuristic = "none"
    /\ tree_edges = << >>
    /\ newick = << >>
    /\ profile_json = "well_formed"
    /\ response = NoResponse
    /\ frames = << >>

\* MSTreeV2 mst2(distances); mst2.compute() is entered.
V2Enter ==
    /\ pc = "matrix"
    /\ pc' = "v2"
    /\ method' = "MSTreeV2"
    /\ frames' = <<V2Frame(distances)>>
    /\ UNCHANGED <<strain_names, profiles, matrix_type, missing_handler,
                   distances, heuristic, tree_edges, newick,
                   profile_json, response>>

Frame_Unchanged ==
    UNCHANGED <<pc, strain_names, profiles, matrix_type, missing_handler,
                distances, method, heuristic, tree_edges, newick,
                profile_json, response>>

\* Phase 1: min_incoming = find_minimum_incoming_edges().
V2FindIncoming ==
    /\ InV2
    /\ Top.phase = "find"
    /\ frames' = SetTop([Top EXCEPT
                    !.min_incoming = find_minimum_incoming_edges(Top.D),
                    !.phase = "detect"])
    /\ Frame_Unchanged

\* Phase 2 and the test of phase 3: cycle_id = detect_cycles(min_incoming);
\* without cycles compute goes on to recraft_branches(min_incoming).
V2DetectCycles ==
    /\ InV2
    /\ Top.phase = "detect"
    /\ \E cycle_id \in {detect_cycles(Top.D, Top.min_incoming)} :
          frames' = SetTop([Top EXCEPT
                       !.cycle_id = cycle_id,
                       !.tree = Top.min_incoming,
                       !.phase = IF has_cycles(cycle_id)
                                 THEN "contract" ELSE "while"])
    /\ Frame_Unchanged

\* contract_and_solve up to the recursive call: the contracted matrix and
\* edge_mapping are built and contracted_solver.compute() is entered.
V2Contract ==
    /\ InV2
    /\ Top.phase = "contract"
    /\ \E r \in {ContractLoop(Top.D, Top.min_incoming, Top.cycle_id,
                    node_mapping(Top.cycle_id), 0,
                    [a \in 0..(ContractedSize(Top.cycle_id) - 1) |->
                        [b \in 0..(ContractedSize(Top.cycle_id) - 1) |-> DBL_MAX]],
                    [key \in (0..(ContractedSize(Top.cycle_id) - 1))
                               \X (0..(ContractedSize(Top.cycle_id) - 1)) |-> NoEdge])} :
          frames' = Append(SetTop([Top EXCEPT !.edge_mapping = r[2],
                                              !.phase = "solving"]),
                           V2Frame(r[1]))
    /\ Frame_Unchanged

\* The head of the while loop of recraft_branches.
V2While ==
    /\ InV2
    /\ Top.phase = "while"
    /\ frames' = SetTop(
          IF Top.improved /\ Top.iteration < max_iterations
          THEN [Top EXCEPT !.improved = FALSE,
                           !.iteration = Top.iteration + 1,
                           !.i = 1, !.j = 2,
                           !.phase = IF Len(Top.tree) >= 2 THEN "pairs" ELSE "while"]
          ELSE [Top EXCEPT !.phase = "return"])
    /\ Frame_Unchanged

\* Faulty variant of NextPair: after the last pair the double loop starts
\* over instead of ending.
NextPair_StartsOver(len, i, j) ==
    IF j + 1 <= len THEN <<i, j + 1>>
    ELSE IF i + 2 <= len THEN <<i + 1, i + 2>>
    ELSE <<1, 2>>

\* The pair after (i, j) in the double loop, <<0, 0>> after the last one.
NextPair(len, i, j) ==
    IF j + 1 <= len THEN <<i, j + 1>>
    ELSE IF i + 2 <= len THEN <<i + 1, i + 2>>
    ELSE <<0, 0>>

\* The body of the double loop for the pair (i, j).
V2Pair ==
    /\ InV2
    /\ Top.phase = "pairs"
    /\ \E swaps \in {SwapsPair(Top.D, Top.tree, Top.i, Top.j)},
          next \in {NextPair(Len(Top.tree), Top.i, Top.j)} :
          frames' = SetTop([Top EXCEPT
                       !.tree = IF swaps
                                THEN perform_edge_swap(Top.D, Top.tree, Top.i, Top.j)
                                ELSE Top.tree,
                       !.improved = Top.improved \/ swaps,
                       !.i = next[1], !.j = next[2],
                       !.phase = IF next = <<0, 0>> THEN "while" ELSE "pairs"])
    /\ Frame_Unchanged

\* return min_incoming: to contract_and_solve, which expands the solution
\* and returns it to its compute for recrafting, or to compute_tree.
V2Return ==
    /\ InV2
    /\ Top.phase = "return"
    /\ IF Len(frames) = 1
       THEN /\ tree_edges' = Top.tree
            /\ frames' = << >>
            /\ pc' = "tree"
       ELSE /\ \E caller \in {frames[Len(frames) - 1]} :
                 frames' = [k \in 1..(Len(frames) - 1) |->
                    IF k < Len(frames) - 1 THEN frames[k]
                    ELSE [caller EXCEPT
                            !.tree = Expand(Top.tree, caller.edge_mapping,
                                            caller.min_incoming),
                            !.phase = "while"]]
            /\ UNCHANGED <<tree_edges, pc>>
    /\ UNCHANGED <<strain_names, profiles, matrix_type, missing_handler,
                   distances, method, heuristic, newick, profile_json, response>>

\* ---- MSTree::compute step by step ------------------------------------------
\* The one frame of a running MSTree::compute: the object's matrix and
\* heuristic and the locals of compute.  phase "select" is the start of an
\* iteration of the main loop (or its end, when count has reached n_nodes_),
\* phase "add" the point after select_node_with_tiebreak returned min_node.
InPrim == pc = "prim" /\ frames # << >>

\* MSTree mst(distances, h); mst.compute() runs up to its main loop.
PrimEnter ==
    /\ pc = "matrix"
    /\ pc' = "prim"
    /\ method' = "MSTree"
    /\ \E h \in Heuristics :
          /\ heuristic' = h
          /\ frames' = <<[D |-> distances, heuristic |-> h, phase |-> "select",
                          count |-> 1,
                          in_tree |-> [i \in DOMAIN distances |-> i = 0],
                          min_distance |-> [i \in DOMAIN distances |->
                                              IF i = 0 THEN 0 ELSE distances[0][i]],
                          parent |-> [i \in DOMAIN distances |->
                                        IF i = 0 THEN -1 ELSE 0],
                          tree_edges |-> << >>,
                          min_dist |-> DBL_MAX, candidates |-> << >>,
                          min_node |-> -1]>>
    /\ UNCHANGED <<strain_names, profiles, matrix_type, missing_handler,
                   distances, tree_edges, newick, profile_json, response>>

\* The first half of an iteration: min_dist and select_node_with_tiebreak.
PrimSelect ==
    /\ InPrim
    /\ Top.phase = "select"
    /\ Top.count < Size(Top.D)
    /\ \E min_dist \in {MinDistLoop(Size(Top.D), Top.min_distance,
                                    Top.in_tree, 0, DBL_MAX)} :
          frames' = SetTop([Top EXCEPT
              !.min_dist = min_dist,
              !.candidates = Candidates(Size(Top.D), Top.min_distance,
                                        Top.in_tree, min_dist, 0),
              !.min_node = select_node_with_tiebreak(Top.D, Top.heuristic,
                               Top.min_distance, Top.in_tree, min_dist),
              !.phase = "add"])
    /\ Frame_Unchanged

\* The second half: min_node joins the tree, its edge is emitted, the
\* distances of the remaining nodes are updated and count is incremented.
PrimAdd ==
    /\ InPrim
    /\ Top.phase = "add"
    /\ \E in_tree2 \in {[Top.in_tree EXCEPT ![Top.min_node] = TRUE]} :
          \E r \in {Relax(Top.D, in_tree2, Top.min_node,
                          Top.min_distance, Top.parent)} :
             frames' = SetTop([Top EXCEPT
                 !.in_tree = in_tree2,
                 !.tree_edges = Append(Top.tree_edges,
                                       Edge(Top.parent[Top.min_node],
                                            Top.min_node, Top.min_dist)),
                 !.min_distance = r[1],
                 !.parent = r[2],
                 !.count = Top.count + 1,
                 !.phase = "select"])
    /\ Frame_Unchanged

\* return tree_edges.
PrimReturn ==
    /\ InPrim
    /\ Top.phase = "select"
    /\ Top.count >= Size(Top.D)
    /\ tree_edges' = Top.tree_edges
    /\ frames' = << >>
    /\ pc' = "tree"
    /\ UNCHANGED <<strain_names, profiles, matrix_type, missing_handler,
                   distances, method, heuristic, newick, profile_json, response>>

PrimNext ==
    \/ ComputeSymmetric
    \/ ComputeAsymmetric
    \/ PrimEnter
    \/ PrimSelect
    \/ PrimAdd
    \/ PrimReturn

PrimSpec == StepInit /\ [][PrimNext]_vars

V2Next ==
    \/ ComputeSymmetric
    \/ ComputeAsymmetric
    \/ V2Enter
    \/ V2FindIncoming
    \/ V2DetectCycles
    \/ V2Contract
    \/ V2While
    \/ V2Pair
    \/ V2Return

V2Spec == StepInit /\ [][V2Next]_vars

\* compute_tree runs to its end: a step that can be taken is taken.
V2FairSpec == V2Spec /\ WF_vars(V2Next)

\* The stepwise runs end where the calls of compute_tree end.
StepsAgree ==
    pc = "tree" =>
        tree_edges = IF method = "MSTree"
                     THEN MSTreeCompute(distances, heuristic)
                     ELSE MSTreeV2Compute(distances)

\* ---- the tree builders on a matrix of their caller's choice ---------------
\* MSTree and MSTreeV2 are constructed from any std::vector<std::vector<double>>;
\* here from every 2 x 2 matrix with entries 0, 0.5, ... MaxEntry / 2, the
\* diagonal and both directions chosen freely.
MaxEntry == 5
TwoNodes == 0..1

MatrixInit ==
    /\ pc = "matrix"
    /\ distances \in [TwoNodes -> [TwoNodes -> 0..MaxEntry]]
    /\ strain_names = [i \in TwoNodes |-> PlainNames[i + 1]]
    /\ profiles = << >>
    /\ profile_json = "none"
    /\ matrix_type = "none"
    /\ missing_handler = IGNORE
    /\ method = "none"
    /\ heuristic = "none"
    /\ tree_edges = << >>
    /\ newick = << >>
    /\ response = NoResponse
    /\ frames = << >>

MatrixNext == RunMSTree \/ RunMSTreeV2

MatrixSpec == MatrixInit /\ [][MatrixNext]_vars

\* ---- MSTreeV2 on matrices that pick a given edge into every node --------
\* MSTreeV2 constructed on the matrix whose column `to` has its one smallest
\* entry, 0.5, in the row picks[to] and 1.0 in the other rows, for every
\* choice of picks[to] # to: find_minimum_incoming_edges then picks exactly
\* these edges, and compute is followed up to the return of detect_cycles.
MaxCycleNodes == 5

Picks(n) == {p \in [1..(n - 1) -> 0..(n - 1)] : \A to \in 1..(n - 1) : p[to] # to}

PickMatrix(n, p) ==
    [from \in 0..(n - 1) |->
        [to \in 0..(n - 1) |->
            IF from = to THEN 0
            ELSE IF to # 0 /\ p[to] = from THEN 1 ELSE 2]]

CycleInit ==
    /\ pc = "v2"
    /\ \E n \in 2..MaxCycleNodes :
          \E p \in Picks(n) :
             /\ distances = PickMatrix(n, p)
             /\ frames = <<V2Frame(PickMatrix(n, p))>>
    /\ strain_names = << >>
    /\ profiles = << >>
    /\ profile_json = "none"
    /\ matrix_type = "none"
    /\ missing_handler = IGNORE
    /\ method = "MSTreeV2"
    /\ heuristic = "none"
    /\ tree_edges = << >>
    /\ newick = << >>
    /\ response = NoResponse

CycleNext == V2FindIncoming \/ V2DetectCycles

CycleSpec == CycleInit /\ [][CycleNext]_vars

\* ---- MSTreeV2 on every small matrix of three nodes ------------------------
\* MSTreeV2 constructed on every 3 x 3 matrix with a zero diagonal and the
\* other entries 0, 0.5, ... MaxIncomingEntry / 2 chosen freely, so that
\* equal column minima meet sources of different scores; compute is followed
\* up to the return of detect_cycles.
MaxIncomingEntry == 2
ThreeNodes == 0..2

IncomingInit ==
    /\ pc = "v2"
    /\ \E D \in [ThreeNodes -> [ThreeNodes -> 0..MaxIncomingEntry]] :
          /\ \A i \in ThreeNodes : D[i][i] = 0
          /\ distances = D
          /\ frames = <<V2Frame(D)>>
    /\ strain_names = << >>
    /\ profiles = << >>
    /\ profile_json = "none"
    /\ matrix_type = "none"
    /\ missing_handler = IGNORE
    /\ method = "MSTreeV2"
    /\ heuristic = "none"
    /\ tree_edges = << >>
    /\ newick = << >>
    /\ response = NoResponse

IncomingSpec == IncomingInit /\ [][CycleNext]_vars

\* ---- MSTree on matrices of four nodes -------------------------------------
\* MSTree constructed on every 4 x 4 matrix with a zero diagonal and each
\* other entry 0.5 or 1.5, with either heuristic, and compute followed step
\* by step: rows of three distances are added up in the order of the loop.
TieEntries == {1, 3}
FourNodes == 0..3
OffDiagonal == {pair \in FourNodes \X FourNodes : pair[1] # pair[2]}

TieInit ==
    /\ pc = "matrix"
    /\ \E off \in [OffDiagonal -> TieEntries] :
          distances = [i \in FourNodes |->
                          [j \in FourNodes |-> IF i = j THEN 0 ELSE off[<<i, j>>]]]
    /\ strain_names = << >>
    /\ profiles = << >>
    /\ profile_json = "none"
    /\ matrix_type = "none"
    /\ missing_handler = IGNORE
    /\ method = "none"
    /\ heuristic = "none"
    /\ tree_edges = << >>
    /\ newick = << >>
    /\ response = NoResponse
    /\ frames = << >>

TieNext == PrimEnter \/ PrimSelect \/ PrimAdd \/ PrimReturn

TieSpec == TieInit /\ [][TieNext]_vars

\* ---- the request facade (wasm_interface.cpp) -----------------------------
\* compute_tree and compute_distance_matrix as whole calls: from the request
\* text to the response text.  The request parameters are recorded in
\* method, matrix_type, missing_handler and heuristic; a response is the
\* JSON object the call dumps, a record with exactly the keys the call set.
MaxRequestStrains == 2

\* What json::parse and the two get<> calls of parse_profile_json find.
JsonKinds == {"well_formed", "not_json", "no_strains", "no_profiles"}

\* e.what() of the exception parse_profile_json throws, as a list of pieces.
ParseError ==
    IF profile_json = "not_json" THEN <<"[json.exception.parse_error.101] ">>
    ELSE <<"[json.exception.type_error.302] ", "type must be array, but is null">>

\* Request tables that are not rectangular or do not match the names: one
\* row less, one row more, row i one locus shorter, row i one locus longer.
MissingRow(P) == [i \in 0..(Cardinality(DOMAIN P) - 2) |-> P[i]]
ExtraRow(P) ==
    [i \in 0..Cardinality(DOMAIN P) |->
        IF i \in DOMAIN P THEN P[i] ELSE [k \in Loci |-> 1]]
ShortRow(P, i) ==
    [P EXCEPT ![i] = [k \in 0..(Cardinality(Loci) - 2) |-> P[i][k]]]
LongRow(P, i) ==
    [P EXCEPT ![i] = [k \in 0..Cardinality(Loci) |->
                         IF k \in Loci THEN P[i][k] ELSE 1]]

MisshapenProfiles(n) ==
    UNION { {ExtraRow(P)}
            \cup (IF n > 0 THEN {MissingRow(P)} ELSE {})
            \cup {ShortRow(P, i) : i \in DOMAIN P}
            \cup {LongRow(P, i) : i \in DOMAIN P} : P \in Profiles(n) }

\* The state in which a request waits to be served.
RequestInit ==
    /\ pc = "request"
    /\ profile_json \in JsonKinds
    /\ \/ /\ profile_json = "well_formed"
          /\ \E n \in 0..MaxRequestStrains :
                \/ /\ strain_names \in NameVectors(n)
                   /\ profiles \in Profiles(n)
                \/ /\ strain_names = [i \in 0..(n - 1) |-> PlainNames[i + 1]]
                   /\ profiles \in MisshapenProfiles(n)
       \/ /\ profile_json # "well_formed"
          /\ strain_names = << >>
          /\ profiles = << >>
    /\ matrix_type = "none"
    /\ missing_handler = IGNORE
    /\ distances = NoMatrix
    /\ method = "none"
    /\ heuristic = "none"
    /\ tree_edges = << >>
    /\ newick = << >>
    /\ response = NoResponse
    /\ frames = << >>

\* The values a request may carry: the valid ones and one more of each.
RequestMethods == {"MSTree", "MSTreeV2", "NJ"}
RequestMatrixTypes == {"symmetric", "asymmetric", "euclidean"}
RequestHandlers == Handlers \cup {4}
RequestHeuristics == Heuristics \cup {"random"}

\* data_.profiles[i][k] for i < n_strains, k < n_genes lies outside the
\* vectors at these positions; operator[] does not check.
OutOfBoundsPositions ==
    {pos \in (0..(n_strains - 1)) \X (0..(n_genes - 1)) :
        ~(pos[1] \in DOMAIN profiles /\ pos[2] \in DOMAIN profiles[pos[1]])}

\* The distance loops touch rows only when there is a pair of strains.
OutOfBoundsAccess ==
    /\ n_strains >= 2
    /\ \/ OutOfBoundsPositions # {}
       \/ \E i \in 0..(n_strains - 1) : i \notin DOMAIN profiles

\* What the loops read: the request's alleles, and any value at all at the
\* positions outside the vectors.
MemoryViews ==
    { [i \in 0..(n_strains - 1) |->
          [k \in 0..(n_genes - 1) |->
              IF <<i, k>> \in OutOfBoundsPositions
              THEN garbage[<<i, k>>] ELSE profiles[i][k]]] :
      garbage \in [OutOfBoundsPositions -> AlleleValues] }

\* static_cast<MissingHandler>(missing_handler): outside the enumeration the
\* switch may take any branch or none.
EffectiveHandlers(h) == IF h \in Handlers THEN {h} ELSE Handlers \cup {h}

\* The matrix both calls compute: anything but "symmetric" is asymmetric.
RequestMatrix(view, mt, handler) ==
    IF mt = "symmetric" THEN SymmetricMatrix(view, handler)
    ELSE AsymmetricMatrix(view)

edges_to_json(edges, names) ==
    [k \in 1..Len(edges) |->
        [from |-> edges[k].from, to |-> edges[k].to,
         from_name |-> names[edges[k].from], to_name |-> names[edges[k].to],
         distance |-> edges[k].distance]]

ErrorResponse(what) == [success |-> FALSE, error |-> what]

\* Faulty variant of TreeResponse: n_edges reports the number of nodes.
TreeResponse_CountsNodes(edges, nw) ==
    [success |-> TRUE, newick |-> nw,
     edges |-> edges_to_json(edges, strain_names),
     n_nodes |-> n_strains, n_edges |-> n_strains]

TreeResponse(edges, nw) ==
    [success |-> TRUE, newick |-> nw,
     edges |-> edges_to_json(edges, strain_names),
     n_nodes |-> n_strains, n_edges |-> Len(edges)]

MatrixResponse(D) ==
    [success |-> TRUE, matrix |-> D, strain_names |-> strain_names,
     n_strains |-> n_strains]

\* Faulty variant of UnknownMethod: "NJ" counts as a method the core has.
UnknownMethod_AcceptsNJ(m) == m \notin {"MSTree", "MSTreeV2", "NJ"}

\* The final else of the method dispatch.
UnknownMethod(m) == m \notin {"MSTree", "MSTreeV2"}

\* The try block of compute_tree after the matrix D is there.
TreeCall(D, m, heur) ==
    /\ distances' = D
    /\ IF m = "MSTree" /\ Size(D) = 0
       THEN \* tree_edges.reserve(n_nodes_ - 1) throws std::length_error
            /\ tree_edges' = << >>
            /\ newick' = << >>
            /\ response' = ErrorResponse(<<"vector">>)
       ELSE IF UnknownMethod(m)
       THEN /\ tree_edges' = << >>
            /\ newick' = << >>
            /\ response' = ErrorResponse(<<"Unknown method: ", m>>)
       ELSE \E edges \in {IF m = "MSTree"
                          THEN MSTreeCompute(D, IF heur = "harmonic"
                                                THEN HARMONIC ELSE EBURST)
                          ELSE MSTreeV2Compute(D)} :
            \E nw \in {NewickFormat(edges, strain_names)} :
                /\ tree_edges' = edges
                /\ newick' = nw
                /\ response' = TreeResponse(edges, nw)

\* compute_tree(profile_json, method, matrix_type, missing_handler, heuristic)
ComputeTree ==
    /\ pc = "request"
    /\ \E m \in RequestMethods, mt \in RequestMatrixTypes,
          h \in RequestHandlers, heur \in RequestHeuristics :
          /\ mt # "symmetric" => h = IGNORE
          /\ m # "MSTree" => heur = EBURST
          /\ method' = m
          /\ matrix_type' = mt
          /\ missing_handler' = h
          /\ heuristic' = heur
          /\ \/ /\ profile_json # "well_formed"
                /\ response' = ErrorResponse(ParseError)
                /\ pc' = "tree_response"
                /\ UNCHANGED <<distances, tree_edges, newick>>
             \/ /\ profile_json = "well_formed"
                /\ \E view \in MemoryViews, handler \in EffectiveHandlers(h) :
                      \E D \in {RequestMatrix(view, mt, handler)} :
                         TreeCall(D, m, heur)
                /\ pc' = "tree_response"
             \/ /\ profile_json = "well_formed"
                /\ OutOfBoundsAccess
                /\ pc' = "crashed"
                /\ UNCHANGED <<distances, tree_edges, newick, response>>
    /\ UNCHANGED <<strain_names, profiles, profile_json, frames>>

\* compute_distance_matrix(profile_json, matrix_type, missing_handler)
ComputeDistanceMatrix ==
    /\ pc = "request"
    /\ \E mt \in RequestMatrixTypes, h \in RequestHandlers :
          /\ mt # "symmetric" => h = IGNORE
          /\ matrix_type' = mt
          /\ missing_handler' = h
          /\ \/ /\ profile_json # "well_formed"
                /\ response' = ErrorResponse(ParseError)
                /\ pc' = "matrix_response"
                /\ UNCHANGED distances
             \/ /\ profile_json = "well_formed"
                /\ \E view \in MemoryViews, handler \in EffectiveHandlers(h) :
                      \E D \in {RequestMatrix(view, mt, handler)} :
                         /\ distances' = D
                         /\ response' = MatrixResponse(D)
                /\ pc' = "matrix_response"
             \/ /\ profile_json = "well_formed"
                /\ OutOfBoundsAccess
                /\ pc' = "crashed"
                /\ UNCHANGED <<distances, response>>
    /\ UNCHANGED <<frames, strain_names, profiles, profile_json, method, heuristic,
                   tree_edges, newick>>

RequestNext ==
    \/ ComputeTree
    \/ ComputeDistanceMatrix

RequestSpec == RequestInit /\ [][RequestNext]_vars

\* ==== properties ==========================================================
Strains == 0..(n_strains - 1)
\* The state in which an operation has just returned its matrix / its edge
\* list; later steps leave both unchanged.
HasMatrix == pc = "matrix"
HasTree == pc = "tree"
Missing(a) == a <= 0

\* C1: the matrix returned by compute_symmetric (any handler) and by
\* compute_asymmetric has every entry >= 0 and a zero diagonal; in symmetric
\* mode it is symmetric.
C1_MatrixWellFormed ==
    HasMatrix =>
        /\ DOMAIN distances = Strains
        /\ \A i \in Strains :
              /\ DOMAIN distances[i] = Strains
              /\ distances[i][i] = 0
              /\ \A j \in Strains : distances[i][j] >= 0
        /\ matrix_type = "symmetric" =>
              \A i, j \in Strains : distances[i][j] = distances[j][i]

\* C1 witness: a symmetric matrix over three strains with a positive entry
\* below the diagonal.
C1_Witness ==
    /\ pc = "matrix"
    /\ matrix_type = "symmetric"
    /\ n_strains = 3
    /\ distances[2][1] > 0
    /\ distances[2][1] # distances[1][0]

\* The policy table of the symmetric distance: whether locus k of the pair
\* (a, b) counts as a difference under `handler`.
PolicyCounts(handler, a, b) ==
    IF ~Missing(a) /\ ~Missing(b) THEN a # b
    ELSE IF Missing(a) /\ Missing(b) THEN handler = ABSOLUTE_DIFF
    ELSE handler \in {TREAT_AS_ALLELE, ABSOLUTE_DIFF}

\* C7: in symmetric mode D[i][j], i < j, is the number of loci that count
\* under the policy table of the handler; REMOVE_COLUMN and IGNORE give the
\* same matrix.
C7_SymmetricPolicyTable ==
    (HasMatrix /\ matrix_type = "symmetric") =>
        /\ \A i, j \in Strains :
              i < j => distances[i][j] = HalfUnits * Cardinality(
                          {k \in Loci : PolicyCounts(missing_handler,
                                                     profiles[i][k], profiles[j][k])})
        /\ compute_symmetric(REMOVE_COLUMN) = compute_symmetric(IGNORE)

\* C7 witness: TREAT_AS_ALLELE on a pair with one locus missing on both sides
\* and one locus missing on one side only; the distance is one.
C7_Witness ==
    /\ pc = "matrix"
    /\ matrix_type = "symmetric"
    /\ missing_handler = TREAT_AS_ALLELE
    /\ n_strains >= 2
    /\ \E k \in Loci : Missing(profiles[0][k]) /\ Missing(profiles[1][k])
    /\ \E k \in Loci : Missing(profiles[0][k]) /\ ~Missing(profiles[1][k])
    /\ distances[0][1] = HalfUnits

\* C8: in asymmetric mode D[i][j], i # j, is differences + 0.5 * missing_in_from:
\* loci missing in profile i weigh a half, loci present in both and different
\* weigh one, and a locus missing only in profile j weighs nothing.
C8_DirectionalDistance ==
    (HasMatrix /\ matrix_type = "asymmetric") =>
        \A i, j \in Strains :
            i # j => distances[i][j] =
                HalfUnits * Cardinality({k \in Loci :
                                /\ profiles[i][k] > 0
                                /\ profiles[j][k] > 0
                                /\ profiles[i][k] # profiles[j][k]})
                + Cardinality({k \in Loci : profiles[i][k] <= 0})

\* C8 witness: profile 0 misses a locus that profile 1 has, profile 1 misses
\* none, and the two directions differ.
C8_Witness ==
    /\ pc = "matrix"
    /\ matrix_type = "asymmetric"
    /\ n_strains >= 2
    /\ \E k \in Loci : profiles[0][k] <= 0 /\ profiles[1][k] > 0
    /\ \A k \in Loci : profiles[1][k] > 0
    /\ \E k \in Loci : profiles[0][k] > 0 /\ profiles[0][k] # profiles[1][k]
    /\ distances[0][1] = HalfUnits + 1
    /\ distances[1][0] = HalfUnits

\* ---- graphs over the strains ---------------------------------------------
\* The vertices joined to vertex 0 by the edges of `edges`, read as undirected
\* (directed = FALSE) or followed from `from` to `to` (directed = TRUE).
RECURSIVE ReachFrom(_, _, _)
ReachFrom(edges, directed, seen) ==
    LET more == {edges[k].to : k \in {m \in 1..Len(edges) : edges[m].from \in seen}}
                \cup (IF directed THEN {}
                      ELSE {edges[k].from :
                              k \in {m \in 1..Len(edges) : edges[m].to \in seen}})
    IN  IF more \subseteq seen THEN seen
        ELSE ReachFrom(edges, directed, seen \cup more)

Connected(edges, directed) == Strains \subseteq ReachFrom(edges, directed, {0})

\* `edges` without its k-th edge.
WithoutEdge(edges, k) == SubSeq(edges, 1, k - 1) \o SubSeq(edges, k + 1, Len(edges))

EndpointsValid(edges) ==
    \A k \in 1..Len(edges) : edges[k].from \in Strains /\ edges[k].to \in Strains

\* A connected graph is acyclic exactly when each of its edges is a bridge.
ConnectedAcyclic(edges) ==
    /\ EndpointsValid(edges)
    /\ Connected(edges, FALSE)
    /\ \A k \in 1..Len(edges) : ~Connected(WithoutEdge(edges, k), FALSE)

\* C2: on a symmetric matrix MSTree::compute returns N-1 edges that form a
\* connected acyclic graph over the vertices 0..N-1, and for N >= 2 every
\* vertex is an endpoint of an edge.
C2_MSTreeIsSpanningTree ==
    (HasTree /\ method = "MSTree" /\ matrix_type = "symmetric") =>
        /\ Len(tree_edges) = n_strains - 1
        /\ ConnectedAcyclic(tree_edges)
        /\ n_strains >= 2 =>
              \A v \in Strains : \E k \in 1..Len(tree_edges) :
                  tree_edges[k].from = v \/ tree_edges[k].to = v

\* C2 witness: MSTree over three strains returned the path 0 - 2 - 1.
C2_Witness ==
    /\ pc = "tree"
    /\ method = "MSTree"
    /\ matrix_type = "symmetric"
    /\ n_strains = 3
    /\ tree_edges[1].to = 2
    /\ tree_edges[2].from = 2

\* The spanning trees over the strains, each as the map from a vertex other
\* than 0 to its neighbour on the path to 0.
RECURSIVE ClimbsToRoot(_, _, _)
ClimbsToRoot(up, v, steps) ==
    IF v = 0 THEN TRUE
    ELSE IF steps = 0 THEN FALSE
    ELSE ClimbsToRoot(up, up[v], steps - 1)

SpanningTrees ==
    {up \in [Strains \ {0} -> Strains] :
        \A v \in Strains \ {0} : ClimbsToRoot(up, v, n_strains)}

RECURSIVE SumOver(_, _)
SumOver(f, S) ==
    IF S = {} THEN 0
    ELSE LET x == CHOOSE y \in S : TRUE IN f[x] + SumOver(f, S \ {x})

TreeWeight(up) == SumOver([v \in Strains \ {0} |-> distances[up[v]][v]], Strains \ {0})

EdgeListWeight(edges) ==
    SumOver([k \in 1..Len(edges) |-> edges[k].distance], 1..Len(edges))

\* C6: on a symmetric matrix the edge distances of the tree of MSTree::compute
\* add up to the least total weight of a spanning tree of the complete graph
\* weighted by D, for either heuristic.
C6_MSTreeIsMinimum ==
    (HasTree /\ method = "MSTree" /\ matrix_type = "symmetric") =>
        /\ \A up \in SpanningTrees : EdgeListWeight(tree_edges) <= TreeWeight(up)
        /\ \E up \in SpanningTrees : EdgeListWeight(tree_edges) = TreeWeight(up)

\* C6 witness: three strains at pairwise different distances; the tree leaves
\* out the heaviest pair, which is one of the pairs of vertex 0.
C6_Witness ==
    /\ pc = "tree"
    /\ method = "MSTree"
    /\ matrix_type = "symmetric"
    /\ n_strains = 3
    /\ distances[0][1] > distances[0][2]
    /\ distances[0][2] > distances[1][2]
    /\ EdgeListWeight(tree_edges) = distances[0][2] + distances[1][2]

\* The number of edges of `edges` that point to v.
InDegree(edges, v) == Cardinality({k \in 1..Len(edges) : edges[k].to = v})

\* C3: the edge list of MSTreeV2::compute has N-1 edges, every vertex 1..N-1
\* is the `to` of exactly one edge and vertex 0 of none.
C3_V2InDegrees ==
    (HasTree /\ method = "MSTreeV2") =>
        /\ Len(tree_edges) = n_strains - 1
        /\ \A v \in Strains \ {0} : InDegree(tree_edges, v) = 1
        /\ InDegree(tree_edges, 0) = 0

\* The picked edges of the request's matrix hold a cycle.
PicksHaveCycle ==
    has_cycles(detect_cycles(distances, find_minimum_incoming_edges(distances)))

\* C3 witness: MSTreeV2 ran on three strains whose picked edges hold a cycle,
\* so that the list went through contraction and expansion, and recrafting
\* then changed it.
C3_Witness ==
    /\ pc = "tree"
    /\ method = "MSTreeV2"
    /\ n_strains = 3
    /\ PicksHaveCycle
    /\ tree_edges # Arborescence(distances)

\* C4 (as claimed): on a matrix of compute_asymmetric the edge list of
\* MSTreeV2::compute is a spanning arborescence rooted at vertex 0: acyclic,
\* weakly connected, every vertex reachable from 0 along the edges.
C4_V2IsArborescence ==
    (HasTree /\ method = "MSTreeV2" /\ matrix_type = "asymmetric") =>
        /\ ConnectedAcyclic(tree_edges)
        /\ Connected(tree_edges, TRUE)

\* C5 (as claimed): every edge of MSTreeV2::compute has its endpoints in
\* 0..N-1, is no self-loop, and carries the distance D[from][to] >= 0.
C5_V2EdgesWellFormed ==
    (HasTree /\ method = "MSTreeV2") =>
        \A k \in 1..Len(tree_edges) :
            LET e == tree_edges[k]
            IN  /\ e.from \in Strains
                /\ e.to \in Strains
                /\ e.from # e.to
                /\ e.distance = distances[e.from][e.to]
                /\ e.distance >= 0

\* ---- reading a Newick string back ----------------------------------------
\* The character at position p, or the empty string past the end.
At(str, p) == IF p \in 1..Len(str) THEN str[p] ELSE ""

\* The first position q >= p whose character is not in S (Len(str) + 1 when
\* every character from p on is in S).
RunEnd(str, p, S) ==
    CHOOSE q \in p..(Len(str) + 1) :
        /\ At(str, q) \notin S
        /\ \A m \in p..(q - 1) : str[m] \in S

AllChars(str) == {str[m] : m \in 1..Len(str)}

\* A label at position p: a quoted label runs to the next quote, a bare label
\* to the next special character.
ReadLabel(str, p) ==
    IF At(str, p) = "'"
    THEN LET q == RunEnd(str, p + 1, AllChars(str) \ {"'"})
         IN  [ok |-> q <= Len(str), text |-> SubSeq(str, p + 1, q - 1),
              quoted |-> TRUE, next |-> q + 1]
    ELSE LET q == RunEnd(str, p, AllChars(str) \ SpecialChars)
         IN  [ok |-> TRUE, text |-> SubSeq(str, p, q - 1),
              quoted |-> FALSE, next |-> q]

DigitSet == {DigitChars[m] : m \in 1..Len(DigitChars)}
DigitValue(c) == (CHOOSE m \in 1..Len(DigitChars) : DigitChars[m] = c) - 1

RECURSIVE NumberValue(_)
NumberValue(digits) ==
    IF Len(digits) = 0 THEN 0
    ELSE 10 * NumberValue(SubSeq(digits, 1, Len(digits) - 1))
         + DigitValue(digits[Len(digits)])

\* A branch length at position p, in millionths: digits, a point, six digits.
ReadLength(str, p) ==
    LET q == RunEnd(str, p, DigitSet)
        r == RunEnd(str, q + 1, DigitSet)
    IN  [ok |-> q > p /\ At(str, q) = "." /\ r = q + 7,
         value |-> NumberValue(SubSeq(str, p, q - 1)) * 1000000
                   + NumberValue(SubSeq(str, q + 1, r - 1)),
         next |-> r]

RECURSIVE ReadSubtree(_, _)
RECURSIVE ReadChildren(_, _)

\* The children list from position p on, up to and including its ")".
ReadChildren(str, p) ==
    LET sub == ReadSubtree(str, p)
        len == ReadLength(str, sub.next + 1)
        kid == [label |-> sub.label, length |-> len.value]
        good == sub.ok /\ At(str, sub.next) = ":" /\ len.ok
    IN  IF ~good
        THEN [ok |-> FALSE, next |-> p, kids |-> << >>, triples |-> {}, labels |-> << >>]
        ELSE IF At(str, len.next) = ","
        THEN LET rest == ReadChildren(str, len.next + 1)
             IN  [ok |-> rest.ok, next |-> rest.next, kids |-> <<kid>> \o rest.kids,
                  triples |-> sub.triples \cup rest.triples,
                  labels |-> sub.labels \o rest.labels]
        ELSE [ok |-> At(str, len.next) = ")", next |-> len.next + 1, kids |-> <<kid>>,
              triples |-> sub.triples, labels |-> sub.labels]

\* The subtree at position p: its label, the <<parent, child, length>>
\* triples below it and the labels read, in order.
ReadSubtree(str, p) ==
    IF At(str, p) = "("
    THEN LET kids == ReadChildren(str, p + 1)
             lab == ReadLabel(str, kids.next)
         IN  [ok |-> kids.ok /\ lab.ok, next |-> lab.next, label |-> lab,
              triples |-> kids.triples \cup
                          {<<lab.text, kids.kids[m].label.text, kids.kids[m].length>> :
                              m \in 1..Len(kids.kids)},
              labels |-> kids.labels \o <<lab>>]
    ELSE LET lab == ReadLabel(str, p)
         IN  [ok |-> lab.ok, next |-> lab.next, label |-> lab,
              triples |-> {}, labels |-> <<lab>>]

\* The whole string: one subtree and the closing semicolon.
ReadNewick(str) ==
    LET t == ReadSubtree(str, 1)
    IN  [ok |-> t.ok /\ At(str, t.next) = ";" /\ t.next = Len(str),
         triples |-> t.triples, labels |-> t.labels]

\* The edge list as <<parent name, child name, length in millionths>>.
EdgeTriples ==
    {<<strain_names[tree_edges[k].from], strain_names[tree_edges[k].to],
       tree_edges[k].distance * (1000000 \div HalfUnits)>> : k \in 1..Len(tree_edges)}

HasSpecial(name) == \E m \in 1..Len(name) : name[m] \in SpecialChars

\* C9 (as claimed): the Newick string of an edge list of MSTree::compute or
\* MSTreeV2::compute reads back to the same <<parent, child, length>> triples
\* as the edge list, and every taxon 0..N-1 appears in it exactly once.
C9_NewickRoundTrip ==
    pc = "done" =>
        LET r == ReadNewick(newick)
        IN  /\ r.ok
            /\ r.triples = EdgeTriples
            /\ \A i \in Strains :
                  Cardinality({m \in 1..Len(r.labels) :
                                  r.labels[m].text = strain_names[i]}) = 1

\* C10 (as claimed): in every Newick string of format, the single-taxon
\* string included, a taxon name holding one of the special characters is
\* wrapped in single quotes and a name holding none is emitted bare.
C10_NamesQuoted ==
    pc = "done" =>
        LET r == ReadNewick(newick)
        IN  /\ r.ok
            /\ \A m \in 1..Len(r.labels) :
                  \E i \in Strains :
                      /\ r.labels[m].text = strain_names[i]
                      /\ r.labels[m].quoted = HasSpecial(strain_names[i])

\* Neither self-loop nor unquoted single name: the requests on which the
\* string of format does read back.
C9_ReadsBackElsewhere ==
    (pc = "done" /\ n_strains >= 2 /\ \A k \in 1..Len(tree_edges) :
                                       tree_edges[k].from # tree_edges[k].to) =>
        C9_NewickRoundTrip /\ C10_NamesQuoted

\* ---- identical profiles ----------------------------------------------------
IdenticalProfiles == \A i, j \in DOMAIN profiles : profiles[i] = profiles[j]
SharedMissing == Cardinality({k \in Loci : profiles[0][k] <= 0})
AllDistancesZero == \A i, j \in DOMAIN distances : distances[i][j] = 0
AllBranchesZero == \A k \in 1..Len(tree_edges) : tree_edges[k].distance = 0
MissingBlind ==
    /\ matrix_type = "symmetric"
    /\ missing_handler \in {IGNORE, REMOVE_COLUMN, TREAT_AS_ALLELE}

\* C19 (as stated): when all profiles are identical, all pairwise distances
\* are zero, for every missing handler and in asymmetric mode, whether or
\* not the shared profile has missing values, and every edge of the emitted
\* tree has branch length 0.
C19_IdenticalProfilesZero ==
    (IdenticalProfiles /\ (HasMatrix \/ HasTree)) =>
        /\ AllDistancesZero
        /\ HasTree => AllBranchesZero

\* C19 (amended): when all profiles are identical, all pairwise distances
\* and all branch lengths are zero if the shared profile has no missing
\* value or the mode is symmetric with IGNORE, REMOVE_COLUMN or
\* TREAT_AS_ALLELE.  Otherwise two different strains are at distance m under
\* ABSOLUTE_DIFF and 0.5 * m in asymmetric mode, m being the number of loci
\* missing in the shared profile.
C19_IdenticalProfilesZeroUnlessMissingCounts ==
    (IdenticalProfiles /\ (HasMatrix \/ HasTree)) =>
        IF SharedMissing = 0 \/ MissingBlind
        THEN /\ AllDistancesZero
             /\ HasTree => AllBranchesZero
        ELSE \A i, j \in DOMAIN distances :
                distances[i][j] =
                    IF i = j THEN 0
                    ELSE IF matrix_type = "symmetric"
                         THEN HalfUnits * SharedMissing
                         ELSE SharedMissing

\* C19 witness: three copies of a profile with a missing value under
\* TREAT_AS_ALLELE gave a tree whose two branches have length 0.
C19_Witness ==
    /\ HasTree
    /\ n_strains = 3
    /\ IdenticalProfiles
    /\ SharedMissing = 1
    /\ missing_handler = TREAT_AS_ALLELE
    /\ matrix_type = "symmetric"
    /\ Len(tree_edges) = 2
    /\ AllDistancesZero
    /\ AllBranchesZero

\* ---- permuting the strains --------------------------------------------------
StrainPermutations ==
    {pi \in [DOMAIN profiles -> DOMAIN profiles] :
        \A i, j \in DOMAIN profiles : pi[i] = pi[j] => i = j}

\* The profile table with strain i moved to position pi[i].
PermutedProfiles(pi) ==
    [j \in DOMAIN profiles |->
        profiles[CHOOSE i \in DOMAIN profiles : pi[i] = j]]

\* compute_tree's matrix and tree for a table Q, with the parameters of
\* the run that produced tree_edges.
RerunMatrix(Q) ==
    IF matrix_type = "symmetric"
    THEN SymmetricMatrix(Q, missing_handler) ELSE AsymmetricMatrix(Q)
RerunTree(D) ==
    IF method = "MSTree" THEN MSTreeCompute(D, heuristic)
    ELSE MSTreeV2Compute(D)

UndirectedEdges(edges) ==
    {{edges[k].from, edges[k].to} : k \in 1..Len(edges)}
ImageEdges(pi, edges) ==
    {{pi[edges[k].from], pi[edges[k].to]} : k \in 1..Len(edges)}

IsomorphicUnder(pi) ==
    \E Q \in {PermutedProfiles(pi)} :
       \E D \in {RerunMatrix(Q)} :
          \E permuted_edges \in {RerunTree(D)} :
             UndirectedEdges(permuted_edges) = ImageEdges(pi, tree_edges)

\* C20: permuting strains and profiles together by any permutation pi and
\* running compute_tree again with the same parameters gives a tree
\* isomorphic to the first under pi: {u, v} is an edge of the first tree
\* iff {pi(u), pi(v)} is an edge of the second, for MSTree and MSTreeV2.
C20_PermutationInvariant ==
    HasTree => \A pi \in StrainPermutations : IsomorphicUnder(pi)

\* The strains at positions 0 and 1 change places.
SwapFirstTwo == [i \in DOMAIN profiles |-> IF i = 0 THEN 1 ELSE IF i = 1 THEN 0 ELSE i]

\* Three different strains at distance 1 from one another: MSTree makes the
\* strain at position 0 the centre, whichever strain that is.
C20_CentreFollowsPosition ==
    /\ HasTree
    /\ method = "MSTree"
    /\ matrix_type = "symmetric"
    /\ missing_handler = TREAT_AS_ALLELE
    /\ profiles = [i \in 0..2 |-> [g \in Loci |-> IF g = 0 THEN 0 ELSE i]]
    /\ UndirectedEdges(tree_edges) = {{0, 1}, {0, 2}}
    /\ UndirectedEdges(RerunTree(RerunMatrix(PermutedProfiles(SwapFirstTwo))))
          = {{0, 1}, {0, 2}}
    /\ ImageEdges(SwapFirstTwo, tree_edges) = {{0, 1}, {1, 2}}

\* MSTreeV2 roots the tree at position 0, whichever strain that is.
C20_RootFollowsPosition ==
    /\ HasTree
    /\ method = "MSTreeV2"
    /\ matrix_type = "asymmetric"
    /\ n_strains = 3
    /\ \A i, j \in DOMAIN profiles : i # j => profiles[i] # profiles[j]
    /\ \A e \in 1..Len(tree_edges) : tree_edges[e].from # tree_edges[e].to
    /\ ~IsomorphicUnder(SwapFirstTwo)

\* ==== properties of the request facade =====================================
TreeResponded == pc = "tree_response"
MatrixResponded == pc = "matrix_response"
Responded == TreeResponded \/ MatrixResponded
FailureEnvelope ==
    /\ DOMAIN response = {"success", "error"}
    /\ response.success = FALSE
TreeSuccessFields == {"newick", "edges", "n_nodes", "n_edges"}

C12_EmptyRequestRejected ==
    (/\ Responded
     /\ n_strains = 0
     /\ TreeResponded => method \in {"MSTree", "MSTreeV2"}) => FailureEnvelope

\* The responses the code gives to {"strains": [], "profiles": []}.
C12_EmptyTreeAccepted ==
    /\ TreeResponded
    /\ profile_json = "well_formed"
    /\ n_strains = 0
    /\ profiles = << >>
    /\ method = "MSTreeV2"
    /\ response = [success |-> TRUE, newick |-> <<"(", ")", ";">>, edges |-> << >>,
                   n_nodes |-> 0, n_edges |-> 0]
C12_EmptyMatrixAccepted ==
    /\ MatrixResponded
    /\ profile_json = "well_formed"
    /\ n_strains = 0
    /\ profiles = << >>
    /\ response = [success |-> TRUE, matrix |-> << >>, strain_names |-> << >>,
                   n_strains |-> 0]

\* The request's table has as many rows as there are strains, all of one
\* length.
Rectangular ==
    /\ Cardinality(DOMAIN profiles) = n_strains
    /\ \A i, j \in DOMAIN profiles :
          Cardinality(DOMAIN profiles[i]) = Cardinality(DOMAIN profiles[j])

\* C13: compute_tree and compute_distance_matrix answer with the failure
\* envelope whenever profiles.len differs from strains.len or the profile
\* rows are not all of one length; a request with more profile rows than
\* strains is never answered with success: true.
C13_MisshapenRequestRejected ==
    (Responded /\ profile_json = "well_formed" /\ ~Rectangular) =>
        FailureEnvelope

\* The response the code gives to two strains with three profile rows.
C13_ExtraRowAccepted ==
    /\ MatrixResponded
    /\ n_strains = 2
    /\ Cardinality(DOMAIN profiles) = 3
    /\ response.success = TRUE
    /\ Size(response.matrix) = 2
\* A row shorter than the first one is read past its end.
C13_ShortRowAccepted ==
    /\ TreeResponded
    /\ n_strains = 2
    /\ DOMAIN profiles = 0..1
    /\ Cardinality(DOMAIN profiles[1]) < n_genes
    /\ method = "MSTree"
    /\ response.success = TRUE

\* C14: compute_tree and compute_distance_matrix answer with the failure
\* envelope when matrix_type is neither "symmetric" nor "asymmetric"; an
\* unknown matrix_type selects no distance mode.
C14_UnknownMatrixTypeRejected ==
    (/\ Responded
     /\ profile_json = "well_formed"
     /\ matrix_type \notin {"symmetric", "asymmetric"}) => FailureEnvelope

\* The response the code gives to matrix_type "euclidean": the directional
\* matrix.
C14_UnknownMatrixTypeAccepted ==
    /\ MatrixResponded
    /\ matrix_type = "euclidean"
    /\ n_strains = 2
    /\ Rectangular
    /\ response.success = TRUE
    /\ response.matrix = AsymmetricMatrix(profiles)
    /\ response.matrix[1][0] # response.matrix[0][1]

\* C15: with matrix_type "symmetric", compute_tree and
\* compute_distance_matrix answer with the failure envelope when
\* missing_handler is outside 0..3; such a handler yields no distance matrix.
C15_UnknownHandlerRejected ==
    (/\ Responded
     /\ profile_json = "well_formed"
     /\ matrix_type = "symmetric"
     /\ missing_handler \notin 0..3) => FailureEnvelope

\* The response the code gives to missing_handler 4.
C15_UnknownHandlerAccepted ==
    /\ MatrixResponded
    /\ matrix_type = "symmetric"
    /\ missing_handler = 4
    /\ n_strains = 2
    /\ Rectangular
    /\ response.success = TRUE
    /\ Size(response.matrix) = 2

\* C16: every response of compute_tree is either the full success envelope
\* (success true with newick, edges, n_nodes and n_edges, where n_nodes is
\* the number of strains N and n_edges = length(edges) = N - 1 for N >= 1)
\* or the failure envelope (success false, an error text, none of the
\* success fields); nothing in between is returned.
C16_ResponseWhole ==
    TreeResponded =>
        \/ /\ DOMAIN response = {"success"} \cup TreeSuccessFields
           /\ response.success = TRUE
           /\ response.newick = newick
           /\ response.n_nodes = n_strains
           /\ response.n_edges = Len(response.edges)
           /\ n_strains >= 1 => response.n_edges = n_strains - 1
        \/ /\ FailureEnvelope
           /\ response.error \in Seq(STRING)
           /\ response.error # << >>

\* C16 witness: a two-strain request was answered with the full success
\* envelope holding one edge.
C16_Witness ==
    /\ TreeResponded
    /\ n_strains = 2
    /\ response.success = TRUE
    /\ response.n_nodes = 2
    /\ response.n_edges = 1
    /\ Len(response.edges) = 1

\* C17: for a request with one strain and one profile, compute_tree with
\* method MSTree and with method MSTreeV2 answers success with an empty
\* edge list, n_edges = 0 and the Newick text made of the strain name
\* followed by ";".
C17_SingleStrain ==
    (/\ TreeResponded
     /\ profile_json = "well_formed"
     /\ n_strains = 1
     /\ Cardinality(DOMAIN profiles) = 1
     /\ method \in {"MSTree", "MSTreeV2"}) =>
        /\ response.success = TRUE
        /\ response.edges = << >>
        /\ response.n_edges = 0
        /\ response.newick = strain_names[0] \o <<";">>

\* C17 witness: the one-strain request was answered for MSTreeV2 with the
\* name and a semicolon.
C17_Witness ==
    /\ TreeResponded
    /\ n_strains = 1
    /\ DOMAIN profiles = {0}
    /\ method = "MSTreeV2"
    /\ response.success = TRUE
    /\ response.edges = << >>
    /\ response.newick = <<"A", ";">>

\* ==== properties of the tree builders on two nodes ========================
\* C18: for N = 2 and any distance matrix, MSTree::compute and
\* MSTreeV2::compute return exactly one edge, from 0 to 1 with distance
\* D[0][1]; for MSTreeV2 also when D[1][0] < D[0][1].
C18_TwoNodesOneEdge ==
    (HasTree /\ Size(distances) = 2 /\ method \in {"MSTree", "MSTreeV2"}) =>
        tree_edges = <<[from |-> 0, to |-> 1, distance |-> distances[0][1]]>>

\* C18 witness: MSTreeV2 returned the edge 0 -> 1 of length 1.5 although
\* the way back has length 0.5.
C18_Witness ==
    /\ HasTree
    /\ method = "MSTreeV2"
    /\ distances[0][1] = 3
    /\ distances[1][0] = 1
    /\ tree_edges = <<[from |-> 0, to |-> 1, distance |-> 3]>>

\* ==== properties of the builders' steps ====================================
TotalWeight(edges) == EdgeListWeight(edges)

\* The step about to be taken swaps the pair (i, j) of the innermost frame.
AboutToSwap ==
    /\ InV2
    /\ Top.phase = "pairs"
    /\ SwapsPair(Top.D, Top.tree, Top.i, Top.j)

\* The tree of the same frame after the step.
TreeAfter == frames'[Len(frames)].tree

\* C21: every swap performed by recraft_branches strictly decreases the sum
\* of the two swapped edges' distances, so the total weight of the edge
\* list does not grow; no pair is swapped when only the reverse-direction
\* alternative D[e1.to][e2.from] + D[e2.to][e1.from] is cheaper than the
\* current cost and the applied reconnection is not.
C21_SwapsDecreaseWeight ==
    [][(AboutToSwap /\ frames' # frames) =>
          LET e1 == Top.tree[Top.i]
              e2 == Top.tree[Top.j]
              current_cost == e1.distance + e2.distance
              cost1 == Top.D[e1.from][e2.to] + Top.D[e2.from][e1.to]
              cost2 == Top.D[e1.to][e2.from] + Top.D[e2.to][e1.from]
          IN  /\ TreeAfter[Top.i].distance + TreeAfter[Top.j].distance
                    < current_cost
              /\ TotalWeight(TreeAfter) <= TotalWeight(Top.tree)
              /\ ~(cost2 < current_cost /\ ~(cost1 < current_cost))]_vars

\* Every node but 0 is `to` of exactly one edge of `edges`, node 0 of none.
InDegreeOne(edges, n) ==
    /\ \A v \in 1..(n - 1) :
          Cardinality({k \in 1..Len(edges) : edges[k].to = v}) = 1
    /\ \A k \in 1..Len(edges) : edges[k].to \in 1..(n - 1)

Recrafting == InV2 /\ Top.phase \in {"while", "pairs", "return"}

\* C22: every swap performed by recraft_branches leaves the number of
\* edges, every edge's `from` and the multiset of `to` endpoints unchanged,
\* so that throughout recrafting each vertex 1..N-1 is `to` of exactly one
\* edge and vertex 0 of none.
C22_SwapsKeepInDegree ==
    /\ [][(AboutToSwap /\ frames' # frames) =>
            /\ Len(TreeAfter) = Len(Top.tree)
            /\ \A k \in 1..Len(Top.tree) : TreeAfter[k].from = Top.tree[k].from
            /\ \A v \in DOMAIN Top.D :
                  Cardinality({k \in 1..Len(TreeAfter) : TreeAfter[k].to = v})
                    = Cardinality({k \in 1..Len(Top.tree) : Top.tree[k].to = v})]_vars
    /\ [](Recrafting => InDegreeOne(Top.tree, Size(Top.D)))

\* C22 witness: a pass of recraft_branches over three nodes has swapped a
\* pair, and every node but 0 still has one incoming edge.
C22_Witness ==
    /\ InV2
    /\ Len(frames) = 1
    /\ Top.phase = "while"
    /\ Top.iteration >= 1
    /\ Top.improved
    /\ Size(Top.D) = 3
    /\ Top.tree # Top.min_incoming
    /\ InDegreeOne(Top.tree, 3)

\* The nodes reached from v along one or more edges of `edges`.
Descendants(edges, v) ==
    ReachFrom(edges, TRUE, {edges[k].to : k \in {m \in 1..Len(edges) : edges[m].from = v}})
HasDirectedCycle(edges, n) == \E v \in 0..(n - 1) : v \in Descendants(edges, v)

\* contract_and_solve has just returned the expanded list to compute.
Expanded ==
    /\ InV2
    /\ Top.phase = "while"
    /\ Top.iteration = 0
    /\ has_cycles(Top.cycle_id)

CycleIds(cycle_id) == {cycle_id[v] : v \in DOMAIN cycle_id} \ {-1}
Members(cycle_id, c) == {v \in DOMAIN cycle_id : cycle_id[v] = c}
\* The edges of `edges` into v.
EdgesInto(edges, v) == {edges[k] : k \in {m \in 1..Len(edges) : edges[m].to = v}}

\* C23: after the expansion step of contract_and_solve, before recrafting,
\* every cycle of the picked edges has exactly one member whose picked edge
\* was replaced, by an edge entering the cycle from outside it; the other
\* members keep their picked edges; the expanded list has no directed cycle.
C23_ExpansionBreaksCycles ==
    Expanded =>
        /\ \A c \in CycleIds(Top.cycle_id) :
              \E v \in Members(Top.cycle_id, c) :
                 /\ \E e \in EdgesInto(Top.tree, v) :
                       /\ EdgesInto(Top.tree, v) = {e}
                       /\ e.from \notin Members(Top.cycle_id, c)
                 /\ \A w \in Members(Top.cycle_id, c) \ {v} :
                       EdgesInto(Top.tree, w) = EdgesInto(Top.min_incoming, w)
        /\ ~HasDirectedCycle(Top.tree, Size(Top.D))

\* C23 witness: the picks of three nodes closed the cycle 1 -> 2 -> 1, and
\* the expanded list enters it from node 0.
C23_Witness ==
    /\ Expanded
    /\ Len(frames) = 1
    /\ Size(Top.D) = 3
    /\ Members(Top.cycle_id, 0) = {1, 2}
    /\ \E k \in 1..Len(Top.tree) : Top.tree[k].from = 0
    /\ ~HasDirectedCycle(Top.tree, 3)
    /\ HasDirectedCycle(Top.min_incoming, 3)

\* A bound on the steps a call of compute on n nodes still has to take.
\* PairCount(n) bounds the pairs of one pass, OwnSteps(n) the steps of the
\* call itself (ten passes, their heads and the phases around them) and
\* CallSteps(n) those of the call and the calls nested in it.
PairCount(n) == IF n >= 3 THEN ((n - 1) * (n - 2)) \div 2 ELSE 0
PassSteps(n) == PairCount(n) + 1
OwnSteps(n) == max_iterations * PassSteps(n) + 8
RECURSIVE CallSteps(_)
CallSteps(n) == IF n <= 2 THEN OwnSteps(n) ELSE OwnSteps(n) + CallSteps(n - 1)

\* The number of pairs the double loop visits before the pair (i, j).
PairIndex(len, i, j) ==
    (i - 1) * len - ((i * (i - 1)) \div 2) + (j - i - 1)

\* What is left of the recrafting part of a call.
RecraftSteps(f) ==
    LET n == Size(f.D)
        left == max_iterations - f.iteration
    IN  CASE f.phase = "return" -> 1
          [] f.phase = "while" -> left * PassSteps(n) + 2
          [] f.phase = "pairs" ->
                left * PassSteps(n) + 2
                  + PairCount(n) - PairIndex(Len(f.tree), f.i, f.j)
          [] OTHER -> max_iterations * PassSteps(n) + 3

\* What is left of a call: the phases before recrafting and, as long as the
\* call may still contract, the allowance for the nested call.
FrameSteps(f) ==
    LET n == Size(f.D)
        nested == IF n >= 3 THEN CallSteps(n - 1) ELSE 0
    IN  CASE f.phase = "find" -> RecraftSteps(f) + 3 + nested
          [] f.phase = "detect" -> RecraftSteps(f) + 2 + nested
          [] f.phase = "contract" -> RecraftSteps(f) + 1 + nested
          [] f.phase = "solving" -> RecraftSteps(f)
          [] OTHER -> RecraftSteps(f)

RECURSIVE StackSteps(_, _)
StackSteps(stack, k) ==
    IF k > Len(stack) THEN 0 ELSE FrameSteps(stack[k]) + StackSteps(stack, k + 1)

\* C24: MSTreeV2::compute terminates.  The matrix of every recursive call
\* has strictly fewer vertices than its caller's (a contraction takes place
\* only when a cycle was marked), so there are at most N nested calls; the
\* running call can always take its next step; and every step lowers a
\* bound on the steps that remain, which is never negative.
C24_ComputeTerminates ==
    /\ [](InV2 =>
            /\ \A k \in 1..(Len(frames) - 1) :
                  /\ frames[k].phase = "solving"
                  /\ has_cycles(frames[k].cycle_id)
                  /\ Size(frames[k + 1].D) < Size(frames[k].D)
            /\ Len(frames) <= Size(distances)
            /\ Top.phase \in {"find", "detect", "contract", "while", "pairs", "return"}
            /\ Top.iteration <= max_iterations
            /\ StackSteps(frames, 1) >= 0)
    /\ [][(InV2 /\ frames' # frames) =>
             StackSteps(frames', 1) < StackSteps(frames, 1)]_vars

\* Under fair scheduling of the steps every call of compute returns.
C24_EventuallyReturns == (pc = "v2") ~> (pc = "tree")

\* C24 witness: a recursive call on a contracted matrix of two nodes, made
\* for three strains, is about to return.
C24_Witness ==
    /\ InV2
    /\ Len(frames) = 2
    /\ Size(frames[1].D) = 3
    /\ Size(frames[2].D) = 2
    /\ Top.phase = "return"


\* v lies on a directed cycle of `edges`; u and v lie on the same one.
OnCycle(edges, v) == v \in Descendants(edges, v)
SameCycle(edges, u, v) == u \in Descendants(edges, v) /\ v \in Descendants(edges, u)

\* detect_cycles has returned in the frame f.
Detected(f) == f.phase \notin {"find", "detect"}

\* C25: for the picked edges (one edge into every node but 0), detect_cycles
\* gives a node an id >= 0 exactly when the node lies on a directed cycle of
\* the picked edges, gives two such nodes the same id exactly when they lie
\* on the same cycle, and leaves cycle_id[0] at -1.
C25_DetectCyclesExact ==
    \A k \in 1..Len(frames) :
        Detected(frames[k]) =>
            LET f == frames[k]
                nodes == DOMAIN f.D
            IN  /\ DOMAIN f.cycle_id = nodes
                /\ \A v \in nodes :
                      /\ f.cycle_id[v] >= -1
                      /\ f.cycle_id[v] >= 0 <=> OnCycle(f.min_incoming, v)
                /\ \A u, v \in nodes :
                      (f.cycle_id[u] >= 0 /\ f.cycle_id[v] >= 0) =>
                          (f.cycle_id[u] = f.cycle_id[v]
                              <=> SameCycle(f.min_incoming, u, v))
                /\ f.cycle_id[0] = -1

\* C25 witness: five nodes whose picks close the two cycles 1 -> 2 -> 1 and
\* 3 -> 4 -> 3; the two cycles were given different ids.
C25_Witness ==
    /\ frames # << >>
    /\ Detected(Top)
    /\ Size(Top.D) = 5
    /\ Top.cycle_id[1] >= 0
    /\ Top.cycle_id[1] = Top.cycle_id[2]
    /\ Top.cycle_id[3] >= 0
    /\ Top.cycle_id[3] = Top.cycle_id[4]
    /\ Top.cycle_id[1] # Top.cycle_id[3]


\* find_minimum_incoming_edges has returned in the frame f.
Picked(f) == f.phase # "find"

\* The sources from # to whose distance to `to` is the smallest one.
ColumnMin(D, to) ==
    CHOOSE d \in {D[from][to] : from \in DOMAIN D \ {to}} :
        \A from \in DOMAIN D \ {to} : d <= D[from][to]
Minimisers(D, to) == {from \in DOMAIN D \ {to} : D[from][to] = ColumnMin(D, to)}

\* C26: find_minimum_incoming_edges records, for every `to` in 1..N-1,
\* exactly one edge (best_from, to, min_dist): min_dist is the smallest
\* D[from][to] over from # to, best_from attains it, and no other source
\* attaining it has a larger harmonic-mean score; no edge enters node 0.
C26_MinimumIncomingEdges ==
    \A k \in 1..Len(frames) :
        Picked(frames[k]) =>
            LET D == frames[k].D
                edges == frames[k].min_incoming
            IN  /\ Len(edges) = Size(D) - 1
                /\ \A to \in 1..(Size(D) - 1) :
                      /\ edges[to].to = to
                      /\ edges[to].distance = ColumnMin(D, to)
                      /\ edges[to].from \in Minimisers(D, to)
                      /\ \A from \in Minimisers(D, to) :
                            ~DblGreater[compute_harmonic_mean_score(D, from),
                                        compute_harmonic_mean_score(D, edges[to].from)]

\* C26 witness: two sources tie at the smallest distance into a node and
\* the one scanned later was recorded, for its larger score.
C26_Witness ==
    /\ frames # << >>
    /\ Top.phase = "detect"
    /\ \E to \in 1..(Size(Top.D) - 1) :
          \E from \in Minimisers(Top.D, to) :
             /\ from < Top.min_incoming[to].from
             /\ DblGreater[compute_harmonic_mean_score(Top.D, Top.min_incoming[to].from),
                           compute_harmonic_mean_score(Top.D, from)]


\* select_node_with_tiebreak has just returned in MSTree::compute.
Selected == InPrim /\ Top.phase = "add"

\* The nodes outside the tree whose min_distance is the least one.
Tied(f) ==
    {c \in DOMAIN f.D :
        /\ ~f.in_tree[c]
        /\ \A i \in DOMAIN f.D : ~f.in_tree[i] => f.min_distance[c] <= f.min_distance[i]}

\* C27: in MSTree with EBURST, when several nodes outside the tree tie at
\* the minimum distance, the node added is the tied one with the most
\* in-tree nodes j with D[c][j] at min_dist and, among those with that
\* count, the one with the smallest index.
C27_EburstTiebreak ==
    (Selected /\ Top.heuristic = EBURST /\ Cardinality(Tied(Top)) > 1) =>
        /\ Top.min_node \in Tied(Top)
        /\ \A c \in Tied(Top) :
              /\ Top.min_dist = Top.min_distance[c]
              /\ Connections(Top.D, Top.in_tree, Top.min_dist, c)
                    <= Connections(Top.D, Top.in_tree, Top.min_dist, Top.min_node)
              /\ Connections(Top.D, Top.in_tree, Top.min_dist, c)
                    = Connections(Top.D, Top.in_tree, Top.min_dist, Top.min_node)
                       => Top.min_node <= c

\* C27 witness: of two tied nodes the one with the larger index was added,
\* having more connections.
C27_Witness ==
    /\ Selected
    /\ Top.heuristic = EBURST
    /\ \E c \in Tied(Top) :
          /\ c < Top.min_node
          /\ Connections(Top.D, Top.in_tree, Top.min_dist, c)
                < Connections(Top.D, Top.in_tree, Top.min_dist, Top.min_node)

\* The harmonic mean count / sum(1 / D[c][j]) of a node as a fraction of
\* integers <<numerator, denominator>>: with the positive distances
\* h[1] / 2 .. h[m] / 2 it is m * h[1] * .. * h[m] over twice the sum of the
\* products that leave one h[k] out; 0 / 1 when no distance is positive.
RECURSIVE ProductWithout(_, _, _)
ProductWithout(row, skip, k) ==
    IF k > Len(row) THEN 1
    ELSE (IF k = skip THEN 1 ELSE row[k]) * ProductWithout(row, skip, k + 1)

RECURSIVE SumOfProducts(_, _)
SumOfProducts(row, k) ==
    IF k > Len(row) THEN 0
    ELSE ProductWithout(row, k, 1) + SumOfProducts(row, k + 1)

HarmonicMean(D, c) ==
    LET row == PositiveRow(D, c, 0)
    IN  IF Len(row) = 0 THEN <<0, 1>>
        ELSE <<Len(row) * ProductWithout(row, 0, 1), 2 * SumOfProducts(row, 1)>>

MeanLess(a, b) == a[1] * b[2] < b[1] * a[2]
MeanEqual(a, b) == a[1] * b[2] = b[1] * a[2]

\* C28: in MSTree with HARMONIC, when several nodes outside the tree tie at
\* the minimum distance, the node added is the tied one with the largest
\* harmonic mean and, among those with that mean, the one with the smallest
\* index.
C28_HarmonicTiebreak ==
    (Selected /\ Top.heuristic = HARMONIC /\ Cardinality(Tied(Top)) > 1) =>
        /\ Top.min_node \in Tied(Top)
        /\ \A c \in Tied(Top) :
              /\ ~MeanLess(HarmonicMean(Top.D, Top.min_node), HarmonicMean(Top.D, c))
              /\ MeanEqual(HarmonicMean(Top.D, Top.min_node), HarmonicMean(Top.D, c))
                    => Top.min_node <= c

\* C28, the case that fails: two tied nodes have the same harmonic mean, the
\* sum of the later one's reciprocals was rounded to a smaller double, and
\* the later node was added.
C28_RoundingDecides ==
    /\ Selected
    /\ Top.heuristic = HARMONIC
    /\ \E c \in Tied(Top) :
          /\ c < Top.min_node
          /\ MeanEqual(HarmonicMean(Top.D, Top.min_node), HarmonicMean(Top.D, c))
          /\ ScoreGreater(compute_harmonic_mean_score(Top.D, Top.min_node),
                          compute_harmonic_mean_score(Top.D, c))
          /\ ScoreClose(compute_harmonic_mean_score(Top.D, Top.min_node),
                        compute_harmonic_mean_score(Top.D, c))

\* Apart from that case the tie-break is the stated one: no tied node has a
\* larger mean than the added one, and a tied node with a smaller index and
\* the same mean has a score that is smaller as a double.
C28_HarmonicTiebreakUpToRounding ==
    (Selected /\ Top.heuristic = HARMONIC /\ Cardinality(Tied(Top)) > 1) =>
        /\ Top.min_node \in Tied(Top)
        /\ \A c \in Tied(Top) :
              /\ ~MeanLess(HarmonicMean(Top.D, Top.min_node), HarmonicMean(Top.D, c))
              /\ (MeanEqual(HarmonicMean(Top.D, Top.min_node), HarmonicMean(Top.D, c))
                    /\ c < Top.min_node)
                    => ScoreGreater(compute_harmonic_mean_score(Top.D, Top.min_node),
                                    compute_harmonic_mean_score(Top.D, c))

\* The nodes to_newick visits from `root`: root and what its children lists
\* lead to.
Visited(nodes, root) ==
    LET RECURSIVE Grow(_)
        Grow(seen) ==
            LET more == UNION {{nodes[v].children[i] : i \in 1..Len(nodes[v].children)} :
                                 v \in seen}
            IN  IF more \subseteq seen THEN seen ELSE Grow(seen \cup more)
    IN  Grow({root})

\* The recursion of to_newick from `root` comes to an end: no node it visits
\* is met again below itself.
ToNewickTerminates(nodes, root) ==
    \A v \in Visited(nodes, root) :
        \A i \in 1..Len(nodes[v].children) :
            v \notin Visited(nodes, nodes[v].children[i])

\* C29: for every edge list MSTree::compute or MSTreeV2::compute returns for
\* two or more strains, find_root of the formatter leaves its first loop
\* with node 0 (node 0 has parent -1), the most-children fallback is not
\* reached, and the recursion of to_newick from the root terminates.
C29_RootIsZero ==
    (pc \in {"tree", "done"} /\ n_strains >= 2) =>
        LET nodes == build_tree_structure(tree_edges, n_strains)
        IN  /\ tree_edges # << >>
            /\ nodes[0].parent = -1
            /\ ~RootFallback(nodes)
            /\ newick_find_root(nodes) = 0
            /\ ToNewickTerminates(nodes, 0)

\* C29 witness: a list of MSTreeV2 for three strains that holds a self-loop
\* was formatted from node 0.
C29_Witness ==
    /\ pc = "done"
    /\ n_strains = 3
    /\ method = "MSTreeV2"
    /\ \E k \in 1..Len(tree_edges) : tree_edges[k].from = tree_edges[k].to
    /\ newick_find_root(build_tree_structure(tree_edges, n_strains)) = 0


\* An iteration of the main loop of MSTree::compute is about to start, or
\* the loop is about to be left.
LoopHead == InPrim /\ Top.phase = "select"

InTree(f) == {j \in DOMAIN f.D : f.in_tree[j]}
EarlierTos(edges, k) == {edges[m].to : m \in 1..(k - 1)}

\* C30: at the start of every iteration of the main loop of MSTree::compute,
\* every node i outside the tree has its parent[i] in the tree and
\* min_distance[i] = D[parent[i]][i], the least D[j][i] over the in-tree
\* nodes j; every edge emitted so far went from a node then in the tree to a
\* node then outside it, node 0 is the `to` of none, and when compute
\* returns every other node is the `to` of exactly one edge.
C30_PrimLoopInvariant ==
    /\ LoopHead =>
          /\ \A i \in DOMAIN Top.D \ InTree(Top) :
                /\ Top.parent[i] \in InTree(Top)
                /\ Top.min_distance[i] = Top.D[Top.parent[i]][i]
                /\ \A j \in InTree(Top) : Top.min_distance[i] <= Top.D[j][i]
          /\ Len(Top.tree_edges) = Top.count - 1
          /\ InTree(Top) = {0} \cup EarlierTos(Top.tree_edges, Top.count)
          /\ \A k \in 1..Len(Top.tree_edges) :
                /\ Top.tree_edges[k].from \in {0} \cup EarlierTos(Top.tree_edges, k)
                /\ Top.tree_edges[k].to \notin {0} \cup EarlierTos(Top.tree_edges, k)
    /\ (pc = "tree" /\ method = "MSTree") =>
          \A v \in DOMAIN distances :
              Cardinality({k \in 1..Len(tree_edges) : tree_edges[k].to = v})
                 = IF v = 0 THEN 0 ELSE 1

\* C30 witness: the third iteration for three strains is over; node 2 had
\* been moved from parent 0 to parent 1 by the update after node 1 joined.
C30_Witness ==
    /\ LoopHead
    /\ Size(Top.D) = 3
    /\ Top.count = 3
    /\ Top.tree_edges[1].to = 1
    /\ Top.tree_edges[2].from = 1
    /\ Top.tree_edges[2].to = 2
    /\ Top.D[1][2] < Top.D[0][2]

=============================================================================
